---- MODULE Spec2Model ----
(***************************************************************************)
(* RecoverySoftNetz: the raw block-device layer (rsn::io::DeviceIO) and    *)
(* its filesystem detection, modelled from src/src/io/device_io.cpp.       *)
(*                                                                         *)
(* uint64_t is scaled down to WordBits bits: every unsigned sum is taken   *)
(* modulo Mod == 2^WordBits, and off_t / ssize_t are the signed type of    *)
(* the same width.  A device is a record of its size, the bytes at the     *)
(* offsets the probes look at (every other byte is zero) and whether the   *)
(* medium is worn, that is, whether the platform may answer a read with    *)
(* an error or with fewer bytes than asked for.                            *)
(*                                                                         *)
(* Above it: rsn::io::DeviceIOAdapter with its three parsers (NTFSParser,  *)
(* APFSParser, EXT4Parser) and RecoveryEngine.  A call of ParseDevice is   *)
(* a pass of several steps, one pair of steps per record slot, so that the *)
(* counters can be watched while the pass runs and the engine's StopScan   *)
(* can arrive between two slots.  uint32_t is scaled down to Word32Bits    *)
(* bits.  The field superblock.blocks_per_group, which the parser reads    *)
(* without initialising it, holds any of the values of Garbage.            *)
(*                                                                         *)
(* Beside them: a second DeviceIO object (peer), the byte order of the     *)
(* host (little-endian everywhere except under SpecHost), the conversions  *)
(* between FilesystemType and its names, and the widgets ProgressMonitor   *)
(* and DeviceWizard as far as their progress bar and enabled flags go.     *)
(***************************************************************************)
EXTENDS Integers, Sequences, FiniteSets, TLC

\* ------------------------------------------------------------------ bounds
\* width in bits of uint64_t / off_t / ssize_t in the model
WordBits == 12
\* number of probe reads of one detection pass the platform may disturb
MaxFaults == 1

\* width in bits of uint32_t in the model
Word32Bits == 20
\* entries the caller's result vector may hold when it is passed to ParseDevice
MaxCarried == 1
\* calls of ParseDevice in one run
MaxPasses == 2
\* how far beyond 0..100 the arguments of SetProgress go
MaxOver == 3

Mod == 2 ^ WordBits
Mod32 == 2 ^ Word32Bits
Half == 2 ^ (WordBits - 1)
\* largest value of ssize_t and off_t, and of vector::max_size()
SSIZE_MAX == Half - 1

\* ------------------------------------------------- constants of the program
\* DeviceIO::DeviceIO: sector_size_(512)
DEFAULT_SECTOR_SIZE == 512
\* DetectNTFS / DetectFAT32: ReadBlockVector(0, 512)
BOOT_SECTOR_SIZE == 512
\* DetectNTFS: &boot_sector[3]
NTFS_SIG_OFFSET == 3
\* DetectNTFS: memcmp(..., 8)
NTFS_SIG_LEN == 8
\* DetectEXT4: ReadBlockVector(1024, 256)
EXT4_SB_OFFSET == 1024
EXT4_SB_READ == 256
\* DetectEXT4: superblock.size() < 120
EXT4_SB_MIN == 120
\* DetectEXT4: &superblock[56]
EXT4_MAGIC_OFFSET == 56
\* DetectEXT4: magic == 0xEF53
EXT4_MAGIC == 61267
\* DetectAPFS: ReadBlockVector(0, 64)
APFS_READ == 64
\* DetectAPFS: header.size() < 4
APFS_MIN == 4
\* DetectAPFS: 0x4253584E ("NXSB") and 0x42535041 ("APSB")
APFS_NXSB == 1112758350
APFS_APSB == 1112756289
\* DetectFAT32: &boot_sector[510]
FAT_SIG_OFFSET == 510
\* DetectFAT32: signature != 0xAA55
FAT_SIG == 43605
\* DetectFAT32: first_byte == 0xEB || first_byte == 0xE9
FAT_JUMP_SHORT == 235
FAT_JUMP_NEAR == 233
\* EXT4Parser::ReadSuperblock: superblock.blocks_count = 262144
EXT4_BLOCKS_COUNT == 262144
\* EXT4Parser::ParseGroupDescriptors: std::min(num_groups, 10)
EXT4_MOCK_GROUPS == 10
\* ReadSuperblock: log_block_size = 2, blocks of 1024 << 2 bytes
EXT4_BLOCK_SIZE == 4096
\* sample_file.file_size of ParseMFT, ParseVolumeBTree and ParseInodeTable
NTFS_SAMPLE_SIZE == 1024
APFS_SAMPLE_SIZE == 2048
EXT4_SAMPLE_SIZE == 4096
\* DetectHFSPlus: ReadBlockVector(1024, 512)
HFS_OFFSET == 1024
HFS_READ == 512
\* DetectHFSPlus: header.size() < 2
HFS_MIN == 2
\* DetectHFSPlus: magic == 0x482B || magic == 0x4858
HFS_PLUS_MAGIC == 18475
HFSX_MAGIC == 18520

\* DetectNTFS: const char *ntfs_sig = "NTFS    "
NTFS_SIG == <<78, 84, 70, 83, 32, 32, 32, 32>>

Min(a, b) == IF a < b THEN a ELSE b

\* ------------------------------------------------------------ device images
NoFile == [exists |-> FALSE]

\* bytes 0..10 of a device: boot code / container magic / NTFS OEM id
HeadZero == <<0, 0, 0, 0, 0, 0, 0, 0, 0, 0, 0>>
HeadJumpEB == <<235, 0, 0, 0, 0, 0, 0, 0, 0, 0, 0>>
HeadJumpE9 == <<233, 0, 0, 0, 0, 0, 0, 0, 0, 0, 0>>
HeadNTFS == <<0, 0, 0, 78, 84, 70, 83, 32, 32, 32, 32>>
HeadJumpNTFS == <<235, 0, 0, 78, 84, 70, 83, 32, 32, 32, 32>>
HeadNXSB == <<78, 88, 83, 66, 0, 0, 0, 0, 0, 0, 0>>
HeadAPSB == <<65, 80, 83, 66, 0, 0, 0, 0, 0, 0, 0>>
HeadNXSBTail == <<78, 88, 83, 66, 84, 70, 83, 32, 32, 32, 32>>
HeadNXSOverNTFS == <<78, 88, 83, 78, 84, 70, 83, 32, 32, 32, 32>>
Heads ==
    {HeadZero, HeadJumpEB, HeadJumpE9, HeadNTFS, HeadJumpNTFS, HeadNXSB,
     HeadAPSB, HeadNXSBTail, HeadNXSOverNTFS}

\* bytes 510..511, 1024..1025 and 1080..1081, in device order
Boots == {<<0, 0>>, <<85, 170>>, <<170, 85>>}
Hfss == {<<0, 0>>, <<72, 43>>, <<43, 72>>, <<72, 88>>, <<88, 72>>}
Exts == {<<0, 0>>, <<83, 239>>, <<239, 83>>}

\* device sizes: below every probe range, APFS only, boot sector only,
\* up to the ext superblock read, and large enough for every probe
Sizes == {0, 100, 512, 1100, 1280, SSIZE_MAX}

Image(size, head, boot, hfs, ext, worn) ==
    [exists |-> TRUE, size |-> size, head |-> head, boot |-> boot,
     hfs |-> hfs, ext |-> ext, worn |-> worn]

Images ==
    {Image(s, h, b, x, e, FALSE) :
        s \in Sizes, h \in Heads, b \in Boots, x \in Hfss, e \in Exts}

\* the byte of the device at an offset (the caller stays below img.size)
ByteAt(img, off) ==
    IF off < 11 THEN img.head[off + 1]
    ELSE IF off = 510 \/ off = 511 THEN img.boot[off - 509]
    ELSE IF off = 1024 \/ off = 1025 THEN img.hfs[off - 1023]
    ELSE IF off = 1080 \/ off = 1081 THEN img.ext[off - 1079]
    ELSE 0

\* tests/io/device_io_test.cpp CreateMockDevice: ext4 magic, NTFS signature,
\* jump instruction and boot signature in one image
MockDevice == Image(SSIZE_MAX, HeadJumpNTFS, <<85, 170>>, <<0, 0>>, <<83, 239>>, FALSE)
\* a worn device carrying the APFS container magic and the ext magic
WornDevice == Image(SSIZE_MAX, HeadNXSB, <<0, 0>>, <<0, 0>>, <<83, 239>>, TRUE)
\* a device too small for the boot sector, with the APFS container magic
SmallDevice == Image(100, HeadNXSB, <<0, 0>>, <<0, 0>>, <<0, 0>>, FALSE)
\* a FAT boot sector on a device that ends inside the ext superblock read
ShortDevice == Image(1100, HeadJumpEB, <<85, 170>>, <<0, 0>>, <<83, 239>>, FALSE)

Paths == {"/dev/a", "/dev/b", "/dev/c", "/dev/d", "/dev/none"}

\* ------------------------------------------------------- platform answers
\* What the operating system does with one read(2) call: deliver everything
\* that is there, deliver half of it, deliver nothing, or report an error.
\* "big" is its implementation-defined treatment of a count above SSIZE_MAX.
IoAnswers == {"full", "half", "zero", "error"}
BigAnswers == {"einval", "clamp"}
Answer(io, big) == [io |-> io, big |-> big]
Healthy == Answer("full", "einval")

\* the answers a device can give to a read of size bytes: a healthy medium
\* always delivers in full
AnswersOf(img, size) ==
    {Answer(io, big) :
        io \in IF img.exists /\ img.worn THEN IoAnswers ELSE {"full"},
        big \in IF size > SSIZE_MAX THEN BigAnswers ELSE {"einval"}}

Probes == {"NTFS", "EXT4", "APFS", "FAT32", "HFS_PLUS"}
AllFull == [p \in Probes |-> Healthy]

\* the answers to the five probe reads of one detection pass
ProbeAnswersOf(img) ==
    IF img.exists /\ img.worn
    THEN {f \in [Probes -> {Answer(io, "einval") : io \in IoAnswers}] :
             Cardinality({p \in Probes : f[p].io # "full"}) <= MaxFaults}
    ELSE {AllFull}

\* ------------------------------------------------------------ DeviceIO reads
Throw(msg) == [ok |-> FALSE, n |-> 0, off |-> 0, why |-> msg]
Bytes(off, n) == [ok |-> TRUE, n |-> n, off |-> off, why |-> ""]

\* a uint64_t converted to off_t / ssize_t
ToSigned(x) == IF x >= Half THEN x - Mod ELSE x

\* DeviceIO::ReadImpl (Unix): lseek, read, bytes_read < 0.  d is the DeviceIO
\* object together with the file its descriptor refers to.
ReadImpl(d, offset, size, r) ==
    IF d.fd < 0 THEN Throw("Device file descriptor invalid")
    ELSE IF ~d.img.exists \/ ToSigned(offset) < 0 THEN Throw("Failed to seek to offset")
    ELSE IF size > SSIZE_MAX /\ r.big = "einval" THEN Throw("Failed to read from device")
    ELSE IF r.io = "error" THEN Throw("Failed to read from device")
    ELSE LET avail == IF offset < d.img.size THEN d.img.size - offset ELSE 0
             full == Min(size, avail)
         IN  Bytes(offset,
                   CASE r.io = "full" -> full
                     [] r.io = "half" -> full \div 2
                     [] OTHER -> 0)

\* DeviceIO::ReadBlock
ReadBlock(d, offset, size, buffer_null, r) ==
    IF ~d.is_open THEN Throw("Device not open")
    ELSE IF buffer_null THEN Throw("Buffer pointer is null")
    ELSE IF (offset + size) % Mod > d.device_size THEN Throw("Read offset beyond device size")
    ELSE ReadImpl(d, offset, size, r)

\* ReadBlockVector without buffer.resize(bytes_read): the vector keeps the
\* size it was allocated with
ReadBlockVector_NoResize(d, offset, size, data_null, r) ==
    IF size > SSIZE_MAX THEN Throw("vector::length_error")
    ELSE LET bytes_read == ReadBlock(d, offset, size, size = 0 /\ data_null, r)
         IN  IF ~bytes_read.ok THEN bytes_read
             ELSE Bytes(offset, size)

\* DeviceIO::ReadBlockVector: allocate size bytes, ReadBlock into them,
\* resize to what was read.  data_null: whether data() of the empty vector
\* is the null pointer (unspecified by the language).
ReadBlockVector(d, offset, size, data_null, r) ==
    IF size > SSIZE_MAX THEN Throw("vector::length_error")
    ELSE LET bytes_read == ReadBlock(d, offset, size, size = 0 /\ data_null, r)
         IN  IF ~bytes_read.ok THEN bytes_read
             ELSE Bytes(offset, bytes_read.n)

\* the bytes of a vector ReadBlockVector returned
VecByte(d, v, i) == ByteAt(d.img, v.off + i)
\* *(uint16_t *)&v[i] and *(uint32_t *)&v[i] on a little-endian host
Load16(d, v, i) == VecByte(d, v, i) + 256 * VecByte(d, v, i + 1)
Load32(d, v, i) == Load16(d, v, i) + 65536 * Load16(d, v, i + 2)

\* ------------------------------------------------------ filesystem detection
\* DeviceIO::DetectNTFS
DetectNTFS(d, r) ==
    LET boot_sector == ReadBlockVector(d, 0, BOOT_SECTOR_SIZE, FALSE, r)
    IN  IF ~boot_sector.ok THEN FALSE
        ELSE IF boot_sector.n < BOOT_SECTOR_SIZE THEN FALSE
        ELSE \A i \in 0 .. NTFS_SIG_LEN - 1 :
                VecByte(d, boot_sector, NTFS_SIG_OFFSET + i) = NTFS_SIG[i + 1]

\* DeviceIO::DetectEXT4
DetectEXT4(d, r) ==
    LET superblock == ReadBlockVector(d, EXT4_SB_OFFSET, EXT4_SB_READ, FALSE, r)
    IN  IF ~superblock.ok THEN FALSE
        ELSE IF superblock.n < EXT4_SB_MIN THEN FALSE
        ELSE Load16(d, superblock, EXT4_MAGIC_OFFSET) = EXT4_MAGIC

\* DetectAPFS that compares the first three bytes of the magic only
DetectAPFS_ThreeBytes(d, r) ==
    LET header == ReadBlockVector(d, 0, APFS_READ, FALSE, r)
    IN  IF ~header.ok THEN FALSE
        ELSE IF header.n < APFS_MIN THEN FALSE
        ELSE LET magic == Load32(d, header, 0) % 16777216
             IN  magic = APFS_NXSB % 16777216 \/ magic = APFS_APSB % 16777216

\* DeviceIO::DetectAPFS
DetectAPFS(d, r) ==
    LET header == ReadBlockVector(d, 0, APFS_READ, FALSE, r)
    IN  IF ~header.ok THEN FALSE
        ELSE IF header.n < APFS_MIN THEN FALSE
        ELSE LET magic == Load32(d, header, 0)
             IN  magic = APFS_NXSB \/ magic = APFS_APSB

\* DetectFAT32 without the check of the jump instruction at offset 0
DetectFAT32_NoJumpCheck(d, r) ==
    LET boot_sector == ReadBlockVector(d, 0, BOOT_SECTOR_SIZE, FALSE, r)
    IN  IF ~boot_sector.ok THEN FALSE
        ELSE IF boot_sector.n < BOOT_SECTOR_SIZE THEN FALSE
        ELSE Load16(d, boot_sector, FAT_SIG_OFFSET) = FAT_SIG

\* DeviceIO::DetectFAT32
DetectFAT32(d, r) ==
    LET boot_sector == ReadBlockVector(d, 0, BOOT_SECTOR_SIZE, FALSE, r)
    IN  IF ~boot_sector.ok THEN FALSE
        ELSE IF boot_sector.n < BOOT_SECTOR_SIZE THEN FALSE
        ELSE IF Load16(d, boot_sector, FAT_SIG_OFFSET) # FAT_SIG THEN FALSE
        ELSE LET first_byte == VecByte(d, boot_sector, 0)
             IN  first_byte = FAT_JUMP_SHORT \/ first_byte = FAT_JUMP_NEAR

\* DeviceIO::DetectHFSPlus
DetectHFSPlus(d, r) ==
    LET header == ReadBlockVector(d, HFS_OFFSET, HFS_READ, FALSE, r)
    IN  IF ~header.ok THEN FALSE
        ELSE IF header.n < HFS_MIN THEN FALSE
        ELSE LET magic == Load16(d, header, 0)
             IN  magic = HFS_PLUS_MAGIC \/ magic = HFSX_MAGIC

\* DetectFilesystem with the ext4 probe tried before the NTFS probe
DetectFilesystem_ExtFirst(d, io) ==
    IF DetectEXT4(d, io["EXT4"]) THEN "EXT4"
    ELSE IF DetectNTFS(d, io["NTFS"]) THEN "NTFS"
    ELSE IF DetectAPFS(d, io["APFS"]) THEN "APFS"
    ELSE IF DetectFAT32(d, io["FAT32"]) THEN "FAT32"
    ELSE IF DetectHFSPlus(d, io["HFS_PLUS"]) THEN "HFS_PLUS"
    ELSE "UNKNOWN"

\* DetectFilesystem with the APFS probe tried first
DetectFilesystem_ApfsFirst(d, io) ==
    IF DetectAPFS(d, io["APFS"]) THEN "APFS"
    ELSE IF DetectNTFS(d, io["NTFS"]) THEN "NTFS"
    ELSE IF DetectEXT4(d, io["EXT4"]) THEN "EXT4"
    ELSE IF DetectFAT32(d, io["FAT32"]) THEN "FAT32"
    ELSE IF DetectHFSPlus(d, io["HFS_PLUS"]) THEN "HFS_PLUS"
    ELSE "UNKNOWN"

\* DetectFilesystem that gives up at the first probe whose read fails
DetectFilesystem_AbortOnReadFailure(d, io) ==
    IF ~ReadBlockVector(d, 0, BOOT_SECTOR_SIZE, FALSE, io["NTFS"]).ok THEN "UNKNOWN"
    ELSE IF DetectNTFS(d, io["NTFS"]) THEN "NTFS"
    ELSE IF ~ReadBlockVector(d, EXT4_SB_OFFSET, EXT4_SB_READ, FALSE, io["EXT4"]).ok
         THEN "UNKNOWN"
    ELSE IF DetectEXT4(d, io["EXT4"]) THEN "EXT4"
    ELSE IF DetectAPFS(d, io["APFS"]) THEN "APFS"
    ELSE IF DetectFAT32(d, io["FAT32"]) THEN "FAT32"
    ELSE IF DetectHFSPlus(d, io["HFS_PLUS"]) THEN "HFS_PLUS"
    ELSE "UNKNOWN"

\* DeviceIO::DetectFilesystem: io gives the platform's answer to each probe's read
DetectFilesystem(d, io) ==
    IF DetectNTFS(d, io["NTFS"]) THEN "NTFS"
    ELSE IF DetectEXT4(d, io["EXT4"]) THEN "EXT4"
    ELSE IF DetectAPFS(d, io["APFS"]) THEN "APFS"
    ELSE IF DetectFAT32(d, io["FAT32"]) THEN "FAT32"
    ELSE IF DetectHFSPlus(d, io["HFS_PLUS"]) THEN "HFS_PLUS"
    ELSE "UNKNOWN"

\* ------------------------------------------- the byte order of the host
\* the operators above are the program on a little-endian host; these are
\* the program on a host of either byte order
HostOrders == {"little", "big"}

\* *(uint16_t *)&v[i] and *(uint32_t *)&v[i]: the bytes in the order of the
\* host
Load16On(order, d, v, i) ==
    IF order = "little"
    THEN VecByte(d, v, i) + 256 * VecByte(d, v, i + 1)
    ELSE 256 * VecByte(d, v, i) + VecByte(d, v, i + 1)
\* a uint32_t of two halves, as a 32-bit integer holds it: 2^32 less when
\* its top bit is set, so that it is equal to no magic number
Word32(hi, lo) == (IF hi >= 32768 THEN hi - 65536 ELSE hi) * 65536 + lo
Load32On(order, d, v, i) ==
    IF order = "little"
    THEN Word32(Load16On(order, d, v, i + 2), Load16On(order, d, v, i))
    ELSE Word32(Load16On(order, d, v, i), Load16On(order, d, v, i + 2))

\* DeviceIO::DetectEXT4
DetectEXT4On(order, d, r) ==
    LET superblock == ReadBlockVector(d, EXT4_SB_OFFSET, EXT4_SB_READ, FALSE, r)
    IN  IF ~superblock.ok THEN FALSE
        ELSE IF superblock.n < EXT4_SB_MIN THEN FALSE
        ELSE Load16On(order, d, superblock, EXT4_MAGIC_OFFSET) = EXT4_MAGIC

\* DeviceIO::DetectAPFS
DetectAPFSOn(order, d, r) ==
    LET header == ReadBlockVector(d, 0, APFS_READ, FALSE, r)
    IN  IF ~header.ok THEN FALSE
        ELSE IF header.n < APFS_MIN THEN FALSE
        ELSE LET magic == Load32On(order, d, header, 0)
             IN  magic = APFS_NXSB \/ magic = APFS_APSB

\* DeviceIO::DetectFAT32
DetectFAT32On(order, d, r) ==
    LET boot_sector == ReadBlockVector(d, 0, BOOT_SECTOR_SIZE, FALSE, r)
    IN  IF ~boot_sector.ok THEN FALSE
        ELSE IF boot_sector.n < BOOT_SECTOR_SIZE THEN FALSE
        ELSE IF Load16On(order, d, boot_sector, FAT_SIG_OFFSET) # FAT_SIG
             THEN FALSE
        ELSE LET first_byte == VecByte(d, boot_sector, 0)
             IN  first_byte = FAT_JUMP_SHORT \/ first_byte = FAT_JUMP_NEAR

\* DeviceIO::DetectHFSPlus
DetectHFSPlusOn(order, d, r) ==
    LET header == ReadBlockVector(d, HFS_OFFSET, HFS_READ, FALSE, r)
    IN  IF ~header.ok THEN FALSE
        ELSE IF header.n < HFS_MIN THEN FALSE
        ELSE LET magic == Load16On(order, d, header, 0)
             IN  magic = HFS_PLUS_MAGIC \/ magic = HFSX_MAGIC

\* DeviceIO::DetectFilesystem
DetectFilesystemOn(order, d, io) ==
    IF DetectNTFS(d, io["NTFS"]) THEN "NTFS"
    ELSE IF DetectEXT4On(order, d, io["EXT4"]) THEN "EXT4"
    ELSE IF DetectAPFSOn(order, d, io["APFS"]) THEN "APFS"
    ELSE IF DetectFAT32On(order, d, io["FAT32"]) THEN "FAT32"
    ELSE IF DetectHFSPlusOn(order, d, io["HFS_PLUS"]) THEN "HFS_PLUS"
    ELSE "UNKNOWN"

\* NTFSParser::IsFileDeleted: the in-use flag of the file record
NTFS_FLAGS_OFFSET == 34
\* a file record as far as IsFileDeleted reads it: its size and the two
\* bytes at offset 0x22
RecordData(size, b0, b1) == [size |-> size, b0 |-> b0, b1 |-> b1]
Records ==
    {RecordData(NTFS_FLAGS_OFFSET + 2, b0, b1) : b0 \in {0, 1}, b1 \in {0, 1}}
        \cup {RecordData(NTFS_FLAGS_OFFSET + 1, 0, 0)}
IsFileDeleted(order, record_data) ==
    IF record_data.size < NTFS_FLAGS_OFFSET + 2 THEN FALSE
    ELSE LET flags == IF order = "little"
                      THEN record_data.b0 + 256 * record_data.b1
                      ELSE 256 * record_data.b0 + record_data.b1
         IN  flags % 2 = 0

\* ------------------------------------------------------------------- state
VARIABLES
    files,                  \* the devices and image files of the machine, by path
    device_fd_,             \* DeviceIO::device_fd_
    current_device_path_,   \* DeviceIO::current_device_path_
    device_size_,           \* DeviceIO::device_size_
    sector_size_,           \* DeviceIO::sector_size_
    detected_fs_,           \* DeviceIO::detected_fs_
    is_open_,               \* DeviceIO::is_open_
    handle,                 \* what the caller last saw of Open/Close
    ret,                    \* the last call: its arguments and its outcome
    ntfs_parser_,           \* DeviceIOAdapter::ntfs_parser_ and its NTFSParser
    apfs_parser_,           \* DeviceIOAdapter::apfs_parser_ and its APFSParser
    ext4_parser_,           \* DeviceIOAdapter::ext4_parser_ and its EXT4Parser
    last_total_files_,      \* DeviceIOAdapter::last_total_files_
    last_deleted_files_,    \* DeviceIOAdapter::last_deleted_files_
    entries,                \* the caller's result vector of FileEntry
    pass,                   \* the position of ParseDevice and the log of the pass
    current_device_,        \* RecoveryEngine::current_device_
    is_scanning_,           \* RecoveryEngine::is_scanning_
    progress_,              \* RecoveryEngine::progress_
    recovered_files_,       \* RecoveryEngine::recovered_files_
    scan_call,              \* the last call of StartScan / StopScan and its result
    peer,                   \* a second DeviceIO object of the same process
    host,                   \* the byte order of the machine the program runs on
    verdict,                \* the last call of IsFileDeleted: record and result
    conv,                   \* the last calls of the two type / name conversions
    progress_bar_,          \* ProgressMonitor::progress_bar_: its value()
    wizard,                 \* the DeviceWizard widget and its children
    ui_call,                \* the last call or user action on a widget
    can_handle,             \* the last CanHandle call on each parser
    view                    \* the ResultsView widget: its fields, its table
                            \* selection and what it last returned

\* the fields of the DeviceIOAdapter object above its DeviceIO
adapter ==
    <<ntfs_parser_, apfs_parser_, ext4_parser_, last_total_files_,
      last_deleted_files_>>

\* the fields of the RecoveryEngine object
engine ==
    <<current_device_, is_scanning_, progress_, recovered_files_, scan_call>>

\* the objects beside the adapter and the engine
\* the widgets
ui == <<progress_bar_, wizard, ui_call>>

aside == <<peer, host, verdict, conv, ui, can_handle, view>>

\* everything above the DeviceIO object
upper == <<adapter, entries, pass, engine, aside>>

vars ==
    <<files, device_fd_, current_device_path_, device_size_, sector_size_,
      detected_fs_, is_open_, handle, ret, upper>>

\* the fields of the DeviceIO object
devio ==
    <<device_fd_, current_device_path_, device_size_, sector_size_,
      detected_fs_, is_open_>>

FileOf(path) == IF path \in DOMAIN files THEN files[path] ELSE NoFile

\* the DeviceIO object as the read operators see it
Dev ==
    [is_open |-> is_open_, device_size |-> device_size_, fd |-> device_fd_,
     img |-> IF is_open_ THEN FileOf(current_device_path_) ELSE NoFile]

Ret(op) ==
    [op |-> op, path |-> "", offset |-> 0, size |-> 0, ok |-> TRUE, n |-> 0,
     fs |-> "UNKNOWN", why |-> "", pre_open |-> is_open_,
     pre_path |-> current_device_path_, io |-> AllFull, r |-> Healthy]

\* DeviceIO::OpenImpl (Unix): the descriptor open(2) returns
OpenImpl(path) == IF FileOf(path).exists THEN 3 ELSE -1

\* DeviceIO::GetSizeImpl (Linux): BLKGETSIZE64, else lseek(SEEK_END)
GetSizeImpl(fd, img) == IF fd < 0 THEN 0 ELSE img.size

\* DeviceIO::CloseImpl (Unix): close_ok is whether close(2) returns 0
CloseImpl(fd, close_ok) == IF fd >= 0 THEN close_ok ELSE TRUE

\* ------------------------------------------- parsers, adapter and engine
\* std::string::find(needle) != npos: a path of the model is known by the
\* needles of the parsers that occur in it
Tokens(path) ==
    CASE path = "/dev/sda1" -> {"sda"}
      [] path = "NTFS:/dev/sda1" -> {"NTFS", "sda"}
      [] path = "/dev/nvme0n1p1" -> {"nvme"}
      [] path = "/Volumes/Data/ext4.img" -> {"Data", "ext4"}
      [] path = "/mnt/NTFS.img" -> {"NTFS"}
      [] path = "/Volumes/Data" -> {"Data"}
      [] OTHER -> {}
Find(path, needle) == needle \in Tokens(path)

\* NTFSParser::ReadBootSector
ReadBootSector(device_path) ==
    Find(device_path, "NTFS") \/ Find(device_path, "C:")

\* APFSParser::ReadContainerSuperblock
ReadContainerSuperblock(device_path) ==
    Find(device_path, "APFS") \/ Find(device_path, "Data")

\* EXT4Parser::ReadSuperblock: the fields it sets; blocks_per_group is not
\* among them
ReadSuperblock(device_path) ==
    Find(device_path, "ext4") \/ Find(device_path, "sda")
        \/ Find(device_path, "nvme")

\* the root metadata block each parser validates first
ReadRoot(fs, device_path) ==
    CASE fs = "NTFS" -> ReadBootSector(device_path)
      [] fs = "APFS" -> ReadContainerSuperblock(device_path)
      [] fs = "EXT4" -> ReadSuperblock(device_path)
      [] OTHER -> FALSE

\* what superblock.blocks_per_group, which nothing initialises, may hold:
\* zero, one, half the block count, the block count, and a value so large
\* that the unsigned sum wraps around to zero
Garbage ==
    {0, 1, EXT4_BLOCKS_COUNT \div 2, EXT4_BLOCKS_COUNT,
     Mod32 - EXT4_BLOCKS_COUNT + 1}
\* the values among them that keep a pass short
SmallGarbage == Garbage \ {1}
\* an unsigned division by zero traps or yields zero, by the platform
DivZero == {"trap", "zero"}
\* the uninitialised field and the platform, as far as the pass depends on
\* them: <<blocks_per_group, what a division by zero does>>
Uninit(garbage, fs) ==
    IF fs # "EXT4" THEN {<<1, "trap">>}
    ELSE {<<g, "trap">> : g \in garbage}
             \cup {<<g, "zero">> : g \in garbage \cap {0}}

\* EXT4Parser::ParseGroupDescriptors: the number of descriptors it makes
\* (uint32_t arithmetic), -1 when the division traps
ParseGroupDescriptors(blocks_per_group, div0) ==
    IF blocks_per_group = 0
    THEN IF div0 = "trap" THEN -1 ELSE 0
    ELSE LET num_groups ==
                 ((EXT4_BLOCKS_COUNT + blocks_per_group - 1) % Mod32)
                     \div blocks_per_group
         IN  Min(num_groups, EXT4_MOCK_GROUPS)

\* NTFSParser::ParseMFT, APFSParser::ParseVolumeBTree and
\* EXT4Parser::ParseInodeTable: the entry each of them pushes
SampleFile(fs) ==
    [filename |-> IF fs = "APFS" THEN "example_document.txt"
                  ELSE "example_file.txt",
     file_size |-> CASE fs = "NTFS" -> NTFS_SAMPLE_SIZE
                     [] fs = "APFS" -> APFS_SAMPLE_SIZE
                     [] OTHER -> EXT4_SAMPLE_SIZE,
     creation_time |-> 0, modification_time |-> 0,
     is_directory |-> FALSE, is_deleted |-> FALSE]

\* a parser pointer that is null, and NTFSParser / APFSParser / EXT4Parser
\* as constructed
NoParser ==
    [made |-> FALSE, total_recoverable_files_ |-> 0,
     total_deleted_files_ |-> 0, is_initialized_ |-> FALSE,
     last_parsed_device_ |-> ""]
NewParser == [NoParser EXCEPT !.made = TRUE]

\* DeviceIOAdapter::InitializeParser: the parser the pointer holds afterwards
InitializeParser(cur) == IF cur.made THEN cur ELSE NewParser

ParsedTypes == {"NTFS", "APFS", "EXT4"}

ParserOf(fs) ==
    CASE fs = "NTFS" -> ntfs_parser_
      [] fs = "APFS" -> apfs_parser_
      [] OTHER -> ext4_parser_

\* the parser of type fs becomes p, the other two stay
SetParser(fs, p) ==
    /\ ntfs_parser_' = IF fs = "NTFS" THEN p ELSE ntfs_parser_
    /\ apfs_parser_' = IF fs = "APFS" THEN p ELSE apfs_parser_
    /\ ext4_parser_' = IF fs = "EXT4" THEN p ELSE ext4_parser_

\* GetRecoveryStats of a parser and of the adapter
ParserStats(p) == <<p.total_recoverable_files_, p.total_deleted_files_>>
GetRecoveryStats == <<last_total_files_, last_deleted_files_>>

RECURSIVE CountDeleted(_)
\* DeviceIOAdapter::ParseDevice: the loop that counts entry.is_deleted
CountDeleted(es) ==
    IF es = <<>> THEN 0
    ELSE (IF Head(es).is_deleted THEN 1 ELSE 0) + CountDeleted(Tail(es))

\* what a finished pass looked like to its caller
NoSummary ==
    [path |-> "", ok |-> FALSE, fresh |-> FALSE, emitted |-> <<>>,
     stats |-> <<0, 0>>, pstats |-> <<0, 0>>, outcome |-> "none"]

\* no call on the engine yet.  pre is is_scanning_ as the call found it,
\* before the call that last returned true before this one
NoScanCall ==
    [op |-> "new", device_path |-> "", ok |-> TRUE, pre |-> FALSE,
     before |-> "none"]

\* the call that last returned true, this one included
LastOk(call) == IF call.ok /\ call.op # "new" THEN call.op ELSE call.before

\* ResultsView::ResultsView: no results, no filter, nothing selected.
\* selected holds the rows of current_results_ (from 1) whose table row is
\* selected, op the last call or user action, got what GetSelectedFiles
\* last returned, preview what fileSelected last carried
NewView ==
    [current_results_ |-> <<>>, last_filter_ |-> "", selected |-> {},
     total_files_ |-> 0, total_deleted_ |-> 0, total_size_ |-> 0,
     op |-> "new", got |-> <<>>, preview |-> <<>>]

\* no parser has been asked yet
NoAnswers ==
    [fs \in {"NTFS", "APFS", "EXT4"} |-> [device_path |-> "-", ok |-> FALSE]]

\* the log of a pass of ParseDevice: pc is where the call stands ("idle"
\* when no call is in progress), todo the record slots still to process,
\* done the slots processed, before the result vector as it was passed in,
\* emitted what the pass pushed, stats and pstats what GetRecoveryStats of
\* the adapter and of the parser gave when the call returned, stats_path the device of the pass that last wrote the
\* adapter's statistics, direct whether Parse of the parser was called
\* without the adapter, cerr what the call wrote to std::cerr, stopped_at the slots processed when StopScan
\* succeeded during the pass (-1: it did not), prev the pass before, n the
\* number of calls so far
NoPass ==
    [pc |-> "idle", path |-> "", fs |-> "UNKNOWN", ok |-> FALSE,
     outcome |-> "none", todo |-> 0, done |-> 0, before |-> <<>>,
     emitted |-> <<>>, stats |-> <<0, 0>>, pstats |-> <<0, 0>>,
     stats_path |-> "", stopped_at |-> -1, prev |-> NoSummary, n |-> 0,
     direct |-> FALSE, cerr |-> ""]

Summary(log) ==
    [path |-> log.path, ok |-> log.ok, fresh |-> log.before = <<>>,
     emitted |-> log.emitted, stats |-> log.stats, pstats |-> log.pstats,
     outcome |-> log.outcome]

\* DeviceIO::DeviceIO, for the second object
NoPeer ==
    [device_fd_ |-> -1, current_device_path_ |-> "", device_size_ |-> 0,
     detected_fs_ |-> "UNKNOWN", is_open_ |-> FALSE, ok |-> TRUE]

\* DeviceWizard::DeviceWizard: a QWidget is enabled when it is made, and
\* RefreshDeviceList has selected the first device
NewWizard ==
    [enabled |-> TRUE, device_combo_ |-> TRUE, refresh_btn_ |-> TRUE,
     scan_btn_ |-> TRUE, current_device_ |-> "/dev/sda1",
     status_label_ |-> "Devices refreshed",
     emitted |-> <<"deviceSelected", "/dev/sda1">>]

\* no call yet on the widgets
NoCall == [op |-> "new", arg |-> 0]

\* no conversion has been called
NoConv == [fs_type |-> "-", fs_name |-> "-", name_in |-> "-", type_out |-> "-"]

NoVerdict == [record_data |-> RecordData(0, 0, 0), deleted |-> FALSE]

\* DeviceIOAdapter::DeviceIOAdapter and RecoveryEngine::RecoveryEngine, on a
\* host of the given byte order
UpperInitOn(order) ==
    /\ host = order
    /\ verdict = NoVerdict
    /\ conv = NoConv
    /\ progress_bar_ = 0
    /\ wizard = NewWizard
    /\ ui_call = NoCall
    /\ peer = NoPeer
    /\ ntfs_parser_ = NoParser
    /\ apfs_parser_ = NoParser
    /\ ext4_parser_ = NoParser
    /\ last_total_files_ = 0
    /\ last_deleted_files_ = 0
    /\ entries = <<>>
    /\ pass = NoPass
    /\ current_device_ = ""
    /\ is_scanning_ = FALSE
    /\ progress_ = 0
    /\ recovered_files_ = 0
    /\ scan_call = NoScanCall
    /\ can_handle = NoAnswers
    /\ view = NewView

\* the same on a little-endian host
UpperInit == UpperInitOn("little")

\* DeviceIO::DeviceIO
Init ==
    /\ files = [p \in Paths |->
                  CASE p = "/dev/a" -> MockDevice
                    [] p = "/dev/b" -> WornDevice
                    [] p = "/dev/c" -> SmallDevice
                    [] p = "/dev/d" -> ShortDevice
                    [] OTHER -> NoFile]
    /\ device_fd_ = -1
    /\ current_device_path_ = ""
    /\ device_size_ = 0
    /\ sector_size_ = DEFAULT_SECTOR_SIZE
    /\ detected_fs_ = "UNKNOWN"
    /\ is_open_ = FALSE
    /\ handle = "new"
    /\ ret = [Ret("DeviceIO") EXCEPT !.pre_open = FALSE, !.pre_path = ""]
    /\ UpperInit

\* Close without is_open_ = false
Close_StaysOpen(close_ok) ==
    /\ ret' = [Ret("Close") EXCEPT
                  !.ok = IF is_open_ THEN CloseImpl(device_fd_, close_ok) ELSE TRUE]
    /\ handle' = "closed"
    /\ UNCHANGED <<upper, files, devio>>

\* Close without the early return: CloseImpl runs again on the descriptor
\* that is already closed, where close(2) fails
Close_NoEarlyReturn(close_ok) ==
    /\ ret' = [Ret("Close") EXCEPT
                  !.ok = IF is_open_ THEN CloseImpl(device_fd_, close_ok)
                         ELSE CloseImpl(device_fd_, FALSE)]
    /\ is_open_' = FALSE
    /\ handle' = "closed"
    /\ UNCHANGED <<upper, files, device_fd_, current_device_path_, device_size_,
                   sector_size_, detected_fs_>>

\* DeviceIO::Close
Close(close_ok) ==
    /\ IF ~is_open_
       THEN /\ ret' = Ret("Close")
            /\ UNCHANGED devio
       ELSE /\ ret' = [Ret("Close") EXCEPT !.ok = CloseImpl(device_fd_, close_ok)]
            /\ is_open_' = FALSE
            /\ UNCHANGED <<device_fd_, current_device_path_, device_size_,
                           sector_size_, detected_fs_>>
    /\ handle' = "closed"
    /\ UNCHANGED <<upper, files>>

\* DeviceIO::Open when OpenImpl fails: the device that was open has been
\* closed, the exception leaves the other fields as they were
OpenThrows(path, fd) ==
    /\ device_fd_' = fd
    /\ is_open_' = FALSE
    /\ ret' = [Ret("Open") EXCEPT !.path = path, !.ok = FALSE,
                  !.why = "Failed to open device"]
    /\ handle' = "open_failed"
    /\ UNCHANGED <<upper, files, current_device_path_, device_size_, sector_size_,
                   detected_fs_>>

\* DeviceIO::Open once OpenImpl has succeeded: path, size, is_open_, detection
OpenSucceeds(path, fd, io) ==
    LET size == GetSizeImpl(fd, FileOf(path))
        opened == [is_open |-> TRUE, device_size |-> size, fd |-> fd,
                   img |-> FileOf(path)]
    IN  /\ device_fd_' = fd
        /\ current_device_path_' = path
        /\ device_size_' = size
        /\ is_open_' = TRUE
        /\ detected_fs_' = DetectFilesystem(opened, io)
        /\ ret' = [Ret("Open") EXCEPT !.path = path, !.io = io,
                      !.fs = detected_fs_']
        /\ handle' = "opened"
        /\ UNCHANGED <<upper, files, sector_size_>>

\* Open that refuses a handle that is open instead of closing it first
Open_AlreadyOpen(path, io) ==
    IF is_open_
    THEN /\ ret' = [Ret("Open") EXCEPT !.path = path, !.ok = FALSE,
                       !.why = "AlreadyOpen"]
         /\ handle' = "open_failed"
         /\ UNCHANGED <<upper, files, devio>>
    ELSE LET fd == OpenImpl(path)
         IN  IF fd < 0 THEN OpenThrows(path, fd) ELSE OpenSucceeds(path, fd, io)

\* DeviceIO::Open: a device that is open is closed first (is_open_ = false,
\* nothing else changes); io is the platform's answers to the probe reads of
\* the detection pass that ends a successful Open
Open(path, io) ==
    LET fd == OpenImpl(path)
    IN  IF fd < 0 THEN OpenThrows(path, fd) ELSE OpenSucceeds(path, fd, io)

\* a call of DeviceIO::ReadBlock
ReadBlockCall(offset, size, buffer_null, r) ==
    LET res == ReadBlock(Dev, offset, size, buffer_null, r)
    IN  /\ ret' = [Ret("ReadBlock") EXCEPT !.offset = offset, !.size = size,
                      !.ok = res.ok, !.n = res.n, !.why = res.why, !.r = r]
        /\ UNCHANGED <<upper, files, devio, handle>>

\* a call of DeviceIO::ReadBlockVector
ReadBlockVectorCall(offset, size, data_null, r) ==
    LET res == ReadBlockVector(Dev, offset, size, data_null, r)
    IN  /\ ret' = [Ret("ReadBlockVector") EXCEPT !.offset = offset,
                      !.size = size, !.ok = res.ok, !.n = res.n,
                      !.why = res.why, !.r = r]
        /\ UNCHANGED <<upper, files, devio, handle>>

\* DeviceIO::GetDeviceSize, GetSectorSize and GetDeviceInfo
GetDeviceSize == device_size_
GetSectorSize == sector_size_
GetDeviceInfo ==
    [device_path |-> current_device_path_, total_bytes |-> device_size_,
     sector_size |-> sector_size_, filesystem_type |-> detected_fs_,
     is_open |-> is_open_]

\* DetectFilesystem that stores what it found in detected_fs_
DetectFilesystemCall_StoresResult(io) ==
    /\ ret' = [Ret("DetectFilesystem") EXCEPT !.io = io,
                  !.fs = DetectFilesystem(Dev, io)]
    /\ detected_fs_' = DetectFilesystem(Dev, io)
    /\ UNCHANGED <<upper, files, device_fd_, current_device_path_,
                   device_size_, sector_size_, is_open_, handle>>

\* a call of DeviceIO::DetectFilesystem
DetectFilesystemCall(io) ==
    /\ ret' = [Ret("DetectFilesystem") EXCEPT !.io = io,
                  !.fs = DetectFilesystem(Dev, io)]
    /\ UNCHANGED <<upper, files, devio, handle>>

\* DeviceIOAdapter::DetectFilesystem
AdapterDetectFilesystem(io) ==
    /\ ret' = [Ret("AdapterDetectFilesystem") EXCEPT !.io = io,
                  !.fs = IF ~is_open_ THEN "UNKNOWN"
                         ELSE DetectFilesystem(Dev, io)]
    /\ UNCHANGED <<upper, files, devio, handle>>

\* the arguments the reads are tried with: <<offset, size, null pointer>>
ReadArgs ==
    {<<o, l, FALSE>> : o \in {0, 512, Half, Mod - 512}, l \in {0, 512, Half, Mod - 512}}
        \cup {<<0, 512, TRUE>>, <<0, 0, TRUE>>, <<SSIZE_MAX, 1, FALSE>>}

Next ==
    \/ \E path \in Paths : \E io \in ProbeAnswersOf(FileOf(path)) : Open(path, io)
    \/ \E close_ok \in BOOLEAN : Close(close_ok)
    \/ \E a \in ReadArgs : \E r \in AnswersOf(Dev.img, a[2]) :
          ReadBlockCall(a[1], a[2], a[3], r)
    \/ \E a \in ReadArgs : \E r \in AnswersOf(Dev.img, a[2]) :
          ReadBlockVectorCall(a[1], a[2], a[3], r)
    \/ \E io \in ProbeAnswersOf(Dev.img) : DetectFilesystemCall(io)
    \/ \E io \in ProbeAnswersOf(Dev.img) : AdapterDetectFilesystem(io)

Spec == Init /\ [][Next]_vars

\* detection as a function of the device: one healthy device out of Images
InitDetect ==
    /\ \E img \in Images :
          files = [p \in Paths |-> IF p = "/dev/a" THEN img ELSE NoFile]
    /\ device_fd_ = -1
    /\ current_device_path_ = ""
    /\ device_size_ = 0
    /\ sector_size_ = DEFAULT_SECTOR_SIZE
    /\ detected_fs_ = "UNKNOWN"
    /\ is_open_ = FALSE
    /\ handle = "new"
    /\ ret = [Ret("DeviceIO") EXCEPT !.pre_open = FALSE, !.pre_path = ""]
    /\ UpperInit

NextDetect ==
    \/ \E io \in ProbeAnswersOf(FileOf("/dev/a")) : Open("/dev/a", io)
    \/ \E close_ok \in BOOLEAN : Close(close_ok)
    \/ \E io \in ProbeAnswersOf(Dev.img) : DetectFilesystemCall(io)
    \/ \E io \in ProbeAnswersOf(Dev.img) : AdapterDetectFilesystem(io)

SpecDetect == InitDetect /\ [][NextDetect]_vars

\* ------------------------------------------------- the adapter at work
\* the image of the example scenario: the EXT magic at byte offset 1080 of
\* the largest device of the model, zero everywhere else
ExtOnlyImage ==
    Image(SSIZE_MAX, HeadZero, <<0, 0>>, <<0, 0>>, <<83, 239>>, FALSE)
NtfsImage ==
    Image(SSIZE_MAX, HeadJumpNTFS, <<85, 170>>, <<0, 0>>, <<0, 0>>, FALSE)
ApfsImage ==
    Image(SSIZE_MAX, HeadNXSB, <<0, 0>>, <<0, 0>>, <<0, 0>>, FALSE)
FatImage ==
    Image(SSIZE_MAX, HeadJumpEB, <<85, 170>>, <<0, 0>>, <<0, 0>>, FALSE)
\* the image DetectHFSPlus takes for HFS+: the native 16-bit load at offset
\* 1024 gives 0x482B
HfsImage ==
    Image(SSIZE_MAX, HeadZero, <<0, 0>>, <<43, 72>>, <<0, 0>>, FALSE)
BlankImage ==
    Image(SSIZE_MAX, HeadZero, <<0, 0>>, <<0, 0>>, <<0, 0>>, FALSE)

\* an image whose metadata table (MFT, inode table, B-tree) holds the given
\* record slots: "live", "deleted" or "bad" (a bad per-record magic)
WithTable(img, table) ==
    [exists |-> TRUE, size |-> img.size, head |-> img.head,
     boot |-> img.boot, hfs |-> img.hfs, ext |-> img.ext,
     worn |-> img.worn, table |-> table]
TableOf(img) == IF "table" \in DOMAIN img THEN img.table ELSE <<>>

ParsePaths ==
    {"/dev/sda1", "/tmp/test_device.img", "/mnt/NTFS.img", "/Volumes/Data",
     "/tmp/fat.img", "/tmp/hfs.img", "/tmp/blank.img"}

ParseFiles ==
    [p \in ParsePaths |->
        CASE p = "/dev/sda1" -> ExtOnlyImage
          [] p = "/tmp/test_device.img" -> ExtOnlyImage
          [] p = "/mnt/NTFS.img" ->
                 WithTable(NtfsImage, <<"live", "bad", "deleted">>)
          [] p = "/Volumes/Data" -> WithTable(ApfsImage, <<"live", "deleted">>)
          [] p = "/tmp/fat.img" -> FatImage
          [] p = "/tmp/hfs.img" -> HfsImage
          [] OTHER -> BlankImage]

\* DeviceIOAdapter::OpenDevice: the exception of Open becomes false
OpenDevice(device_path, io) ==
    /\ pass.pc = "idle"
    /\ Open(device_path, io)

\* the caller empties its result vector between two calls
CallerClears ==
    /\ pass.pc = "idle"
    /\ entries # <<>>
    /\ entries' = <<>>
    /\ UNCHANGED <<aside, files, devio, handle, ret, adapter, pass, engine>>

\* DeviceIOAdapter::ParseDevice: what it writes to std::cerr before it
\* returns false; nothing when it is the parser's Parse that returned false
Message(why) ==
    CASE why = "not_open" -> "Device not open"
      [] why = "unknown_fs" -> "Unknown filesystem type"
      [] why = "no_parser" -> "Failed to initialize parser"
      [] OTHER -> ""

\* a Parse that empties the result vector when it returns false
ParseFails_ClearsVector(log, why, p) ==
    /\ pass' = [log EXCEPT !.outcome = why, !.stats = GetRecoveryStats,
                   !.pstats = ParserStats(p), !.cerr = Message(why)]
    /\ entries' = <<>>
    /\ UNCHANGED <<last_total_files_, last_deleted_files_>>

\* a ParseDevice that takes the statistics from the vector also when it
\* returns false
ParseFails_CountsVector(log, why, p) ==
    /\ pass' = [log EXCEPT !.outcome = why,
                   !.stats = <<Len(entries), CountDeleted(entries)>>,
                   !.pstats = ParserStats(p), !.cerr = Message(why)]
    /\ last_total_files_' = Len(entries)
    /\ last_deleted_files_' = CountDeleted(entries)
    /\ UNCHANGED entries

\* ParseDevice or Parse returns false: nothing was pushed, the statistics
\* stay
ParseFails(log, why, p) ==
    /\ pass' = [log EXCEPT !.outcome = why, !.stats = GetRecoveryStats,
                   !.pstats = ParserStats(p), !.cerr = Message(why)]
    /\ UNCHANGED <<last_total_files_, last_deleted_files_, entries>>

\* DeviceIOAdapter::ParseDevice up to the first record slot: the open check,
\* detection, InitializeParser, the routing, and Parse of the parser up to
\* its loop.  io is the platform's answers to the probe reads,
\* blocks_per_group what the uninitialised field holds, div0 what a
\* division by zero does.
ParseDevice(io, blocks_per_group, div0) ==
    /\ pass.pc = "idle"
    /\ pass.n < MaxPasses
    /\ Len(entries) <= MaxCarried
    /\ LET fs == IF ~is_open_ THEN "UNKNOWN" ELSE DetectFilesystem(Dev, io)
           device_path == current_device_path_
           log == [NoPass EXCEPT !.path = device_path, !.fs = fs,
                      !.before = entries, !.stats_path = pass.stats_path,
                      !.prev = Summary(pass), !.n = pass.n + 1]
           p == [InitializeParser(ParserOf(fs)) EXCEPT
                    !.last_parsed_device_ = device_path]
           groups == IF fs = "EXT4"
                     THEN ParseGroupDescriptors(blocks_per_group, div0)
                     ELSE 1
       IN  IF ~is_open_
           THEN ParseFails(log, "not_open", NoParser)
                    /\ UNCHANGED <<ntfs_parser_, apfs_parser_, ext4_parser_>>
           ELSE IF fs = "UNKNOWN"
           THEN ParseFails(log, "unknown_fs", NoParser)
                    /\ UNCHANGED <<ntfs_parser_, apfs_parser_, ext4_parser_>>
           ELSE IF fs \notin ParsedTypes
           THEN ParseFails(log, "no_parser", NoParser)
                    /\ UNCHANGED <<ntfs_parser_, apfs_parser_, ext4_parser_>>
           ELSE IF ~ReadRoot(fs, device_path)
           THEN ParseFails(log, "root_invalid", p) /\ SetParser(fs, p)
           ELSE /\ SetParser(fs, p)
                /\ pass' = [log EXCEPT
                               !.pc = IF groups < 0 THEN "crashed"
                                      ELSE IF groups = 0 THEN "return"
                                      ELSE "reset",
                               !.outcome = IF groups < 0 THEN "crash"
                                           ELSE "none",
                               !.todo = IF groups < 0 THEN 0 ELSE groups]
                /\ UNCHANGED <<last_total_files_, last_deleted_files_,
                               entries>>
    /\ ret' = [Ret("ParseDevice") EXCEPT !.io = io]
    /\ UNCHANGED <<aside, files, devio, handle, engine>>

\* ParseMFT, ParseVolumeBTree, ParseInodeTable: the counters are set to zero
ParseSlotReset ==
    /\ pass.pc = "reset"
    /\ SetParser(pass.fs, [ParserOf(pass.fs) EXCEPT
                              !.total_recoverable_files_ = 0,
                              !.total_deleted_files_ = 0])
    /\ pass' = [pass EXCEPT !.pc = "emit"]
    /\ UNCHANGED <<aside, files, devio, handle, ret, last_total_files_,
                   last_deleted_files_, entries, engine>>

\* ParseMFT, ParseVolumeBTree, ParseInodeTable: the sample entry is pushed
\* and total_recoverable_files_ = 1
ParseSlotEmit ==
    /\ pass.pc = "emit"
    /\ entries' = Append(entries, SampleFile(pass.fs))
    /\ SetParser(pass.fs, [ParserOf(pass.fs) EXCEPT
                              !.total_recoverable_files_ = 1])
    /\ pass' = [pass EXCEPT !.emitted = Append(@, SampleFile(pass.fs)),
                   !.done = @ + 1, !.todo = @ - 1,
                   !.pc = IF pass.todo > 1 THEN "reset" ELSE "return"]
    /\ UNCHANGED <<aside, files, devio, handle, ret, last_total_files_,
                   last_deleted_files_, engine>>

\* ParseDevice without last_deleted_files_ = 0 before its counting loop
ParseDeviceReturns_KeepsDeleted ==
    /\ pass.pc = "return"
    /\ ~pass.direct
    /\ SetParser(pass.fs, [ParserOf(pass.fs) EXCEPT !.is_initialized_ = TRUE])
    /\ last_total_files_' = Len(entries)
    /\ last_deleted_files_' = last_deleted_files_ + CountDeleted(entries)
    /\ pass' = [pass EXCEPT !.pc = "idle", !.ok = TRUE, !.outcome = "ok",
                   !.stats = <<last_total_files_', last_deleted_files_'>>,
                   !.pstats = ParserStats(ParserOf(pass.fs)),
                   !.stats_path = pass.path]
    /\ UNCHANGED <<aside, files, devio, handle, ret, entries, engine>>

\* the end of Parse (is_initialized_ = true, return true) and of
\* DeviceIOAdapter::ParseDevice: the statistics are taken from the vector
ParseDeviceReturns ==
    /\ pass.pc = "return"
    /\ ~pass.direct
    /\ SetParser(pass.fs, [ParserOf(pass.fs) EXCEPT !.is_initialized_ = TRUE])
    /\ last_total_files_' = Len(entries)
    /\ last_deleted_files_' = CountDeleted(entries)
    /\ pass' = [pass EXCEPT !.pc = "idle", !.ok = TRUE, !.outcome = "ok",
                   !.stats = <<last_total_files_', last_deleted_files_'>>,
                   !.pstats = ParserStats(ParserOf(pass.fs)),
                   !.stats_path = pass.path]
    /\ UNCHANGED <<aside, files, devio, handle, ret, entries, engine>>

\* NTFSParser::Parse, APFSParser::Parse and EXT4Parser::Parse, called on the
\* parser itself, up to the first record slot
Parse(fs, device_path, blocks_per_group, div0) ==
    /\ pass.pc = "idle"
    /\ pass.n < MaxPasses
    /\ Len(entries) <= MaxCarried
    /\ LET made == InitializeParser(ParserOf(fs))
           log == [NoPass EXCEPT !.path = device_path, !.fs = fs,
                      !.before = entries, !.stats_path = pass.stats_path,
                      !.prev = Summary(pass), !.n = pass.n + 1,
                      !.direct = TRUE]
           p == [made EXCEPT !.last_parsed_device_ = device_path]
           groups == IF fs = "EXT4"
                     THEN ParseGroupDescriptors(blocks_per_group, div0)
                     ELSE 1
       IN  IF device_path = ""
           THEN ParseFails(log, "empty_path", made) /\ SetParser(fs, made)
           ELSE IF ~ReadRoot(fs, device_path)
           THEN ParseFails(log, "root_invalid", p) /\ SetParser(fs, p)
           ELSE /\ SetParser(fs, p)
                /\ pass' = [log EXCEPT
                               !.pc = IF groups < 0 THEN "crashed"
                                      ELSE IF groups = 0 THEN "return"
                                      ELSE "reset",
                               !.outcome = IF groups < 0 THEN "crash"
                                           ELSE "none",
                               !.todo = IF groups < 0 THEN 0 ELSE groups]
                /\ UNCHANGED <<last_total_files_, last_deleted_files_,
                               entries>>
    /\ UNCHANGED <<aside, files, devio, handle, ret, engine>>

\* the end of Parse: is_initialized_ = true, return true
ParseReturns ==
    /\ pass.pc = "return"
    /\ pass.direct
    /\ SetParser(pass.fs, [ParserOf(pass.fs) EXCEPT !.is_initialized_ = TRUE])
    /\ pass' = [pass EXCEPT !.pc = "idle", !.ok = TRUE, !.outcome = "ok",
                   !.stats = GetRecoveryStats,
                   !.pstats = ParserStats(ParserOf(pass.fs))]
    /\ UNCHANGED <<aside, files, devio, handle, ret, entries, engine,
                   last_total_files_, last_deleted_files_>>

\* StartScan that starts over when a scan is in progress
StartScan_Restarts(device_path) ==
    /\ pass.pc # "crashed"
    /\ current_device_' = device_path
    /\ is_scanning_' = TRUE
    /\ progress_' = 0
    /\ recovered_files_' = 0
    /\ scan_call' = [op |-> "StartScan", device_path |-> device_path,
                     ok |-> ~is_scanning_, pre |-> is_scanning_,
                     before |-> LastOk(scan_call)]
    /\ UNCHANGED <<aside, files, devio, handle, ret, adapter, entries, pass>>

\* RecoveryEngine::StartScan
StartScan(device_path) ==
    /\ pass.pc # "crashed"
    /\ IF is_scanning_
       THEN UNCHANGED <<current_device_, is_scanning_, progress_,
                        recovered_files_>>
       ELSE /\ current_device_' = device_path
            /\ is_scanning_' = TRUE
            /\ progress_' = 0
            /\ recovered_files_' = 0
    /\ scan_call' = [op |-> "StartScan", device_path |-> device_path,
                     ok |-> ~is_scanning_, pre |-> is_scanning_,
                     before |-> LastOk(scan_call)]
    /\ UNCHANGED <<aside, files, devio, handle, ret, adapter, entries, pass>>

\* StopScan that returns true also when no scan is in progress
StopScan_AlwaysTrue ==
    /\ pass.pc # "crashed"
    /\ is_scanning_' = FALSE
    /\ pass' = IF is_scanning_ /\ pass.pc # "idle" /\ pass.stopped_at < 0
               THEN [pass EXCEPT !.stopped_at = pass.done]
               ELSE pass
    /\ scan_call' = [op |-> "StopScan", device_path |-> "", ok |-> TRUE,
                     pre |-> is_scanning_, before |-> LastOk(scan_call)]
    /\ UNCHANGED <<current_device_, progress_, recovered_files_>>
    /\ UNCHANGED <<aside, files, devio, handle, ret, adapter, entries>>

\* RecoveryEngine::StopScan; the log notes a StopScan that succeeds while a
\* pass is in progress
StopScan ==
    /\ pass.pc # "crashed"
    /\ IF ~is_scanning_
       THEN UNCHANGED <<is_scanning_, pass>>
       ELSE /\ is_scanning_' = FALSE
            /\ pass' = IF pass.pc # "idle" /\ pass.stopped_at < 0
                       THEN [pass EXCEPT !.stopped_at = pass.done]
                       ELSE pass
    /\ scan_call' = [op |-> "StopScan", device_path |-> "", ok |-> is_scanning_,
                     pre |-> is_scanning_, before |-> LastOk(scan_call)]
    /\ UNCHANGED <<current_device_, progress_, recovered_files_>>
    /\ UNCHANGED <<aside, files, devio, handle, ret, adapter, entries>>

InitParse ==
    /\ files = ParseFiles
    /\ device_fd_ = -1
    /\ current_device_path_ = ""
    /\ device_size_ = 0
    /\ sector_size_ = DEFAULT_SECTOR_SIZE
    /\ detected_fs_ = "UNKNOWN"
    /\ is_open_ = FALSE
    /\ handle = "new"
    /\ ret = [Ret("DeviceIO") EXCEPT !.pre_open = FALSE, !.pre_path = ""]
    /\ UpperInit

NextParse ==
    \/ \E path \in ParsePaths : OpenDevice(path, AllFull)
    \/ CallerClears
    \/ \E u \in Uninit(SmallGarbage, detected_fs_) :
          ParseDevice(AllFull, u[1], u[2])
    \/ ParseSlotReset
    \/ ParseSlotEmit
    \/ ParseDeviceReturns

SpecParse == InitParse /\ [][NextParse]_vars

\* a pass of the adapter while the user interface starts and stops the scan
\* of the engine
NextCancel ==
    \/ \E path \in {"/dev/sda1", "/mnt/NTFS.img"} : OpenDevice(path, AllFull)
    \/ \E u \in Uninit(Garbage, detected_fs_) :
          ParseDevice(AllFull, u[1], u[2])
    \/ ParseSlotReset
    \/ ParseSlotEmit
    \/ ParseDeviceReturns
    \/ \E path \in {"/dev/sda1", "/mnt/NTFS.img"} : StartScan(path)
    \/ StopScan

SpecCancel == InitParse /\ [][NextCancel]_vars

\* an entry of an earlier scan that is marked deleted
DeletedFile == [SampleFile("NTFS") EXCEPT !.is_deleted = TRUE]

\* the caller passes a result vector that already holds a deleted entry
CallerFills ==
    /\ pass.pc = "idle"
    /\ entries = <<>>
    /\ entries' = <<DeletedFile>>
    /\ UNCHANGED <<aside, files, devio, handle, ret, adapter, pass, engine>>

\* the adapter on vectors that are not empty when they are passed in
NextStats ==
    \/ \E path \in {"/dev/sda1", "/mnt/NTFS.img", "/tmp/blank.img"} :
          OpenDevice(path, AllFull)
    \/ CallerClears
    \/ CallerFills
    \/ \E u \in Uninit(SmallGarbage, detected_fs_) :
          ParseDevice(AllFull, u[1], u[2])
    \/ ParseSlotReset
    \/ ParseSlotEmit
    \/ ParseDeviceReturns

SpecStats == InitParse /\ [][NextStats]_vars

\* the parsers called as their unit tests call them
DirectPaths ==
    {"", "/dev/nonexistent_device", "/dev/sda1", "/mnt/NTFS.img",
     "/Volumes/Data"}

NextParser ==
    \/ \E fs \in ParsedTypes : \E device_path \in DirectPaths :
          \E u \in Uninit(SmallGarbage, fs) :
             Parse(fs, device_path, u[1], u[2])
    \/ CallerClears
    \/ ParseSlotReset
    \/ ParseSlotEmit
    \/ ParseReturns

SpecParser == InitParse /\ [][NextParser]_vars

\* ------------------------------------------------ two sessions side by side
\* DeviceIO::OpenImpl (Unix) of the second object: open(2) with O_RDONLY
\* takes no lock and hands out the next free descriptor
PeerOpenImpl(path) == IF FileOf(path).exists THEN 4 ELSE -1

\* DeviceIO::Open of the second object; its probe reads deliver in full
PeerOpen(path) ==
    LET fd == PeerOpenImpl(path)
        size == GetSizeImpl(fd, FileOf(path))
        opened == [is_open |-> TRUE, device_size |-> size, fd |-> fd,
                   img |-> FileOf(path)]
    IN  /\ peer' = IF fd < 0
                   THEN [peer EXCEPT !.device_fd_ = fd, !.is_open_ = FALSE,
                                     !.ok = FALSE]
                   ELSE [device_fd_ |-> fd, current_device_path_ |-> path,
                         device_size_ |-> size,
                         detected_fs_ |-> DetectFilesystem(opened, AllFull),
                         is_open_ |-> TRUE, ok |-> TRUE]
        /\ UNCHANGED <<files, devio, handle, ret, adapter, entries, pass, engine,
                       host, verdict, conv, ui, can_handle, view>>

\* DeviceIO::Close of the second object
PeerClose ==
    /\ peer' = [peer EXCEPT !.is_open_ = FALSE, !.ok = TRUE]
    /\ UNCHANGED <<files, devio, handle, ret, adapter, entries, pass, engine,
                       host, verdict, conv, ui, can_handle, view>>

NextShare ==
    \/ \E path \in Paths : Open(path, AllFull)
    \/ \E close_ok \in BOOLEAN : Close(close_ok)
    \/ \E path \in Paths : PeerOpen(path)
    \/ PeerClose

SpecShare == Init /\ [][NextShare]_vars

\* ------------------------------------------- filesystem types and names
\* enum class FilesystemType
FilesystemTypes == {"UNKNOWN", "NTFS", "APFS", "EXT4", "FAT32", "HFS_PLUS"}

\* DeviceIO::FilesystemTypeToString
FilesystemTypeToString(fs_type) ==
    CASE fs_type = "NTFS" -> "NTFS"
      [] fs_type = "APFS" -> "APFS"
      [] fs_type = "EXT4" -> "ext4"
      [] fs_type = "FAT32" -> "FAT32"
      [] fs_type = "HFS_PLUS" -> "HFS+"
      [] OTHER -> "Unknown"

\* StringToFilesystemType that knows ext4 by the name of the enumerator
StringToFilesystemType_EnumName(fs_name) ==
    CASE fs_name = "NTFS" -> "NTFS"
      [] fs_name = "APFS" -> "APFS"
      [] fs_name = "EXT4" -> "EXT4"
      [] fs_name = "FAT32" -> "FAT32"
      [] fs_name = "HFS+" -> "HFS_PLUS"
      [] OTHER -> "UNKNOWN"

\* DeviceIO::StringToFilesystemType
StringToFilesystemType(fs_name) ==
    CASE fs_name = "NTFS" -> "NTFS"
      [] fs_name = "APFS" -> "APFS"
      [] fs_name = "ext4" -> "EXT4"
      [] fs_name = "FAT32" -> "FAT32"
      [] fs_name = "HFS+" -> "HFS_PLUS"
      [] OTHER -> "UNKNOWN"

\* the strings the conversion is tried with: the names, and spellings that
\* are not names
FsNames ==
    {"NTFS", "APFS", "ext4", "FAT32", "HFS+", "Unknown", "", "ntfs", "EXT4",
     "Ext4", "ext3", "fat32", "HFS_PLUS", "HFS", "UNKNOWN", "exFAT", "NTFS "}

\* a call of FilesystemTypeToString
FilesystemTypeToStringCall(fs_type) ==
    /\ conv' = [conv EXCEPT !.fs_type = fs_type,
                            !.fs_name = FilesystemTypeToString(fs_type)]
    /\ UNCHANGED <<files, devio, handle, ret, adapter, entries, pass, engine,
                   peer, host, verdict, ui, can_handle, view>>

\* a call of StringToFilesystemType
StringToFilesystemTypeCall(fs_name) ==
    /\ conv' = [conv EXCEPT !.name_in = fs_name,
                            !.type_out = StringToFilesystemType(fs_name)]
    /\ UNCHANGED <<files, devio, handle, ret, adapter, entries, pass, engine,
                   peer, host, verdict, ui, can_handle, view>>

NextConvert ==
    \/ \E fs_type \in FilesystemTypes : FilesystemTypeToStringCall(fs_type)
    \/ \E fs_name \in FsNames : StringToFilesystemTypeCall(fs_name)

SpecConvert == Init /\ [][NextConvert]_vars

\* ------------------------------------------------- asking the parsers
\* NTFSParser::CanHandle, APFSParser::CanHandle, EXT4Parser::CanHandle: an
\* empty path is refused, any other is given to the reader of the root
\* block
CanHandle(fs, device_path) ==
    IF device_path = "" THEN FALSE ELSE ReadRoot(fs, device_path)

\* the paths of the parsers' unit tests, and a volume path with an image
\* file in it
HandlePaths ==
    {"", "/dev/invalid", "/dev/sda1", "NTFS:/dev/sda1", "/dev/nvme0n1p1",
     "/Volumes/Data", "/Volumes/Data/ext4.img"}

\* a call of CanHandle on the parser of type fs
CanHandleCall(fs, device_path) ==
    /\ can_handle' = [can_handle EXCEPT
                         ![fs] = [device_path |-> device_path,
                                  ok |-> CanHandle(fs, device_path)]]
    /\ UNCHANGED <<files, devio, handle, ret, adapter, entries, pass, engine,
                   peer, host, verdict, conv, ui, view>>

NextHandle ==
    \E fs \in ParsedTypes : \E device_path \in HandlePaths :
        CanHandleCall(fs, device_path)

SpecHandle == Init /\ [][NextHandle]_vars

\* ------------------------------------------------------- the results view
\* everything that is not the results view
nonview ==
    <<files, devio, handle, ret, adapter, entries, pass, engine, peer, host,
      verdict, conv, can_handle, ui>>

\* ResultsView::FormatFileSize for the sizes of the sample entries
FormatFileSize(size) ==
    CASE size = 1024 -> "1.0 KB"
      [] size = 2048 -> "2.0 KB"
      [] size = 4096 -> "4.0 KB"
      [] OTHER -> "0 B"

\* ResultsView::FormatTimestamp for the timestamps of the sample entries
FormatTimestamp(timestamp) ==
    IF timestamp = 0 THEN "Unknown" ELSE "1970-01-01 00:00:01"

GetFileTypeString(is_directory) == IF is_directory THEN "Directory" ELSE "File"

GetStatusString(is_deleted) == IF is_deleted THEN "Deleted" ELSE "Active"

\* ResultsView::CalculatePriority: no sample entry is larger than 1 MB
CalculatePriority(is_deleted) == IF is_deleted THEN "High" ELSE "Low"

\* PopulateResults: the texts of the six cells of the row of an entry
RowOf(entry) ==
    {entry.filename, FormatFileSize(entry.file_size),
     GetFileTypeString(entry.is_directory),
     FormatTimestamp(entry.modification_time),
     GetStatusString(entry.is_deleted), CalculatePriority(entry.is_deleted)}

\* the search terms of the model
SearchTerms == {"", "document", "deleted", "file", "zzz"}

\* setFilterWildcard with CaseInsensitive: the term occurs in the text of
\* a cell (the empty term occurs everywhere)
Occurs(term, cell) ==
    CASE term = "" -> TRUE
      [] term = "document" -> cell = "example_document.txt"
      [] term = "deleted" -> cell = "Deleted"
      [] term = "file" -> cell \in {"example_file.txt", "File"}
      [] OTHER -> FALSE

\* QSortFilterProxyModel with setFilterKeyColumn(-1): a row is shown when
\* the term occurs in one of its cells
FilterAcceptsRow(term, entry) == \E cell \in RowOf(entry) : Occurs(term, cell)

\* the rows of the table model (from 1) that the proxy model shows
Visible(results, term) ==
    {i \in 1 .. Len(results) : FilterAcceptsRow(term, results[i])}

\* QSortFilterProxyModel::mapFromSource: the row (from 0) of the proxy model
\* that shows row i of the table model; nothing sorts the proxy
ProxyRow(results, term, i) ==
    Cardinality({j \in Visible(results, term) : j < i})

\* QItemSelectionModel::selectedRows of the table view: rows of the proxy
selectedRows(v) ==
    {ProxyRow(v.current_results_, v.last_filter_, i) : i \in v.selected}

RECURSIVE Ascending(_)
\* the numbers of a set in ascending order
Ascending(rows) ==
    IF rows = {} THEN <<>>
    ELSE LET least == CHOOSE r \in rows : \A q \in rows : r <= q
         IN  <<least>> \o Ascending(rows \ {least})

\* ResultsView::GetSelectedFiles: current_results_[index.row()] for every
\* selected row below current_results_.size()
GetSelectedFiles(v) ==
    LET rows == Ascending({r \in selectedRows(v) :
                             r < Len(v.current_results_)})
    IN  [k \in 1 .. Len(rows) |-> v.current_results_[rows[k] + 1]]

\* ResultsView::GetResultCount
GetResultCount(v) ==
    Cardinality(Visible(v.current_results_, v.last_filter_))

RECURSIVE TotalSize(_)
\* PopulateResults: total_size_ += entry.file_size
TotalSize(es) ==
    IF es = <<>> THEN 0 ELSE Head(es).file_size + TotalSize(Tail(es))

\* the results a scan hands to the view
ResultLists ==
    {<<>>,
     <<SampleFile("APFS"), DeletedFile>>,
     <<SampleFile("APFS"), SampleFile("NTFS"), DeletedFile>>,
     <<DeletedFile, SampleFile("EXT4")>>}

\* ResultsView::ClearResults
ClearResults ==
    /\ view' = [view EXCEPT !.current_results_ = <<>>, !.selected = {},
                   !.total_files_ = 0, !.total_deleted_ = 0,
                   !.total_size_ = 0, !.op = "ClearResults"]
    /\ UNCHANGED nonview

\* ResultsView::PopulateResults: ClearResults, then a row per entry; the
\* filter of the proxy model stays
PopulateResults(es) ==
    /\ view' = [view EXCEPT !.current_results_ = es, !.selected = {},
                   !.total_files_ = Len(es),
                   !.total_deleted_ = CountDeleted(es),
                   !.total_size_ = TotalSize(es), !.op = "PopulateResults"]
    /\ UNCHANGED nonview

\* ResultsView::FilterResults: rows that are no longer shown leave the
\* selection
FilterResults(search_term) ==
    /\ view' = [view EXCEPT
                   !.last_filter_ = search_term,
                   !.selected = @ \cap Visible(view.current_results_,
                                               search_term),
                   !.op = "FilterResults"]
    /\ UNCHANGED nonview

\* the user clicks row of the table (MultiSelection: the click toggles the
\* row), and ResultsView::OnFileSelected emits fileSelected with
\* current_results_[selected[0].row()]; first is the row selectedRows lists
\* first
ClickRow(row, first) ==
    LET shown == Visible(view.current_results_, view.last_filter_)
        source == CHOOSE i \in shown :
                      ProxyRow(view.current_results_, view.last_filter_, i)
                          = row
        toggled == IF source \in view.selected
                   THEN view.selected \ {source}
                   ELSE view.selected \cup {source}
        v == [view EXCEPT !.selected = toggled, !.op = "click"]
    IN  /\ row < Cardinality(shown)
        /\ IF toggled = {}
           THEN first = 0 /\ view' = v
           ELSE /\ first \in selectedRows(v)
                /\ view' = [v EXCEPT
                               !.preview =
                                   IF first < Len(view.current_results_)
                                   THEN <<view.current_results_[first + 1]>>
                                   ELSE @]
        /\ UNCHANGED nonview

\* ResultsView::OnSelectAll: every row the table shows
OnSelectAll ==
    /\ view' = [view EXCEPT
                   !.selected = Visible(view.current_results_,
                                        view.last_filter_),
                   !.op = "OnSelectAll"]
    /\ UNCHANGED nonview

\* ResultsView::OnDeselectAll
OnDeselectAll ==
    /\ view' = [view EXCEPT !.selected = {}, !.op = "OnDeselectAll"]
    /\ UNCHANGED nonview

\* a call of ResultsView::GetSelectedFiles
GetSelectedFilesCall ==
    /\ view' = [view EXCEPT !.got = GetSelectedFiles(view),
                   !.op = "GetSelectedFiles"]
    /\ UNCHANGED nonview

\* the rows of the largest result list
ViewRows == 0 .. 2

NextView ==
    \/ ClearResults
    \/ \E es \in ResultLists : PopulateResults(es)
    \/ \E search_term \in SearchTerms : FilterResults(search_term)
    \/ \E row \in ViewRows : \E first \in ViewRows : ClickRow(row, first)
    \/ OnSelectAll
    \/ OnDeselectAll
    \/ GetSelectedFilesCall

SpecView == Init /\ [][NextView]_vars

\* ------------------------------------------------------------ the widgets
\* everything that is not a widget of the progress monitor or the wizard
nonui ==
    <<files, devio, handle, ret, adapter, entries, pass, engine, peer, host,
      verdict, conv, can_handle, view>>

\* InitializeUI: progress_bar_->setMinimum(0), setMaximum(100)
PROGRESS_MIN == 0
PROGRESS_MAX == 100

\* QProgressBar::setValue: a value outside minimum..maximum has no effect
SetValue(bar, value) ==
    IF value < PROGRESS_MIN \/ value > PROGRESS_MAX THEN bar ELSE value

\* ProgressMonitor::SetProgress
SetProgress(progress) ==
    /\ progress_bar_' = IF progress >= 0 /\ progress <= 100
                        THEN SetValue(progress_bar_, progress)
                        ELSE progress_bar_
    /\ ui_call' = [op |-> "SetProgress", arg |-> progress]
    /\ UNCHANGED <<nonui, wizard>>

\* ProgressMonitor::ResetProgress
ResetProgress ==
    /\ progress_bar_' = SetValue(progress_bar_, 0)
    /\ ui_call' = [op |-> "ResetProgress", arg |-> 0]
    /\ UNCHANGED <<nonui, wizard>>

\* ProgressMonitor::OnScanCompleted
OnScanCompleted ==
    /\ progress_bar_' = SetValue(progress_bar_, 100)
    /\ ui_call' = [op |-> "OnScanCompleted", arg |-> 0]
    /\ UNCHANGED <<nonui, wizard>>

\* the arguments SetProgress is tried with
ProgressArgs ==
    (PROGRESS_MIN - MaxOver .. PROGRESS_MIN - 1)
        \cup {5 * k : k \in 0 .. 20}
        \cup (PROGRESS_MAX + 1 .. PROGRESS_MAX + MaxOver)

NextProgress ==
    \/ \E progress \in ProgressArgs : SetProgress(progress)
    \/ ResetProgress
    \/ OnScanCompleted

SpecProgress == Init /\ [][NextProgress]_vars

\* RefreshDeviceList: device_paths_
DevicePaths == <<"/dev/sda1", "/dev/nvme0n1p1", "/dev/sdb1">>

\* QWidget::isEnabled of the wizard and of one of its children: a child is
\* enabled when it and its parent are
WizardIsEnabled == wizard.enabled
ChildIsEnabled(flag) == wizard.enabled /\ flag

\* the three setEnabled calls of DeviceWizard::SetUIEnabled
WithUIEnabled(w, enabled) ==
    [w EXCEPT !.device_combo_ = enabled, !.refresh_btn_ = enabled,
              !.scan_btn_ = enabled]

\* DeviceWizard::SetUIEnabled
SetUIEnabled(enabled) ==
    /\ wizard' = WithUIEnabled(wizard, enabled)
    /\ ui_call' = [op |-> "SetUIEnabled", arg |-> enabled]
    /\ UNCHANGED <<nonui, progress_bar_>>

\* QWidget::setEnabled, which DeviceWizard inherits, called by its owner
SetEnabled(enabled) ==
    /\ wizard' = [wizard EXCEPT !.enabled = enabled]
    /\ ui_call' = [op |-> "setEnabled", arg |-> enabled]
    /\ UNCHANGED <<nonui, progress_bar_>>

\* DeviceWizard::OnDeviceChanged and UpdateDeviceInfo, as far as the state
\* kept here goes
OnDeviceChanged(w, index) ==
    IF index >= 0 /\ index < Len(DevicePaths)
    THEN [w EXCEPT !.current_device_ = DevicePaths[index + 1],
                   !.emitted = <<"deviceSelected", DevicePaths[index + 1]>>]
    ELSE w

\* the user picks a device in the combo box: currentIndexChanged
SelectDevice(index) ==
    /\ ChildIsEnabled(wizard.device_combo_)
    /\ DevicePaths[index + 1] # wizard.current_device_
    /\ wizard' = OnDeviceChanged(wizard, index)
    /\ ui_call' = [op |-> "OnDeviceChanged", arg |-> index]
    /\ UNCHANGED <<nonui, progress_bar_>>

\* DeviceWizard::RefreshDeviceList, public
RefreshDeviceList ==
    /\ wizard' = [OnDeviceChanged(wizard, 0) EXCEPT
                      !.status_label_ = "Devices refreshed"]
    /\ ui_call' = [op |-> "RefreshDeviceList", arg |-> 0]
    /\ UNCHANGED <<nonui, progress_bar_>>

\* the user clicks the refresh button: DeviceWizard::OnRefreshDevices
ClickRefresh ==
    /\ ChildIsEnabled(wizard.refresh_btn_)
    /\ wizard' = [OnDeviceChanged(wizard, 0) EXCEPT
                      !.status_label_ = "Devices refreshed successfully"]
    /\ ui_call' = [op |-> "OnRefreshDevices", arg |-> 0]
    /\ UNCHANGED <<nonui, progress_bar_>>

\* the user clicks the scan button: DeviceWizard::OnStartScan
ClickScan ==
    /\ ChildIsEnabled(wizard.scan_btn_)
    /\ wizard' = IF wizard.current_device_ = "" THEN wizard
                 ELSE [WithUIEnabled(wizard, FALSE) EXCEPT
                          !.status_label_ = "Scan in progress...",
                          !.emitted = <<"scanRequested", wizard.current_device_>>]
    /\ ui_call' = [op |-> "OnStartScan", arg |-> 0]
    /\ UNCHANGED <<nonui, progress_bar_>>

NextWizard ==
    \/ \E enabled \in BOOLEAN : SetUIEnabled(enabled)
    \/ \E enabled \in BOOLEAN : SetEnabled(enabled)
    \/ \E index \in 0 .. Len(DevicePaths) - 1 : SelectDevice(index)
    \/ RefreshDeviceList
    \/ ClickRefresh
    \/ ClickScan

SpecWizard == Init /\ [][NextWizard]_vars

\* ------------------------------------------- hosts of either byte order
\* DeviceIO::Open on the host of the state
OpenOnHost(path, io) ==
    LET fd == OpenImpl(path)
        size == GetSizeImpl(fd, FileOf(path))
        opened == [is_open |-> TRUE, device_size |-> size, fd |-> fd,
                   img |-> FileOf(path)]
    IN  IF fd < 0 THEN OpenThrows(path, fd)
        ELSE /\ device_fd_' = fd
             /\ current_device_path_' = path
             /\ device_size_' = size
             /\ is_open_' = TRUE
             /\ detected_fs_' = DetectFilesystemOn(host, opened, io)
             /\ ret' = [Ret("Open") EXCEPT !.path = path, !.io = io,
                           !.fs = detected_fs_']
             /\ handle' = "opened"
             /\ UNCHANGED <<upper, files, sector_size_>>

\* a call of NTFSParser::IsFileDeleted on the host of the state
IsFileDeletedCall(record_data) ==
    /\ verdict' = [record_data |-> record_data,
                   deleted |-> IsFileDeleted(host, record_data)]
    /\ UNCHANGED <<files, devio, handle, ret, adapter, entries, pass, engine,
                   peer, host, conv, ui, can_handle, view>>

\* one image of the largest size, on a host of either byte order
InitHost ==
    /\ \E img \in {i \in Images : i.size = SSIZE_MAX} :
          files = [p \in Paths |-> IF p = "/dev/a" THEN img ELSE NoFile]
    /\ device_fd_ = -1
    /\ current_device_path_ = ""
    /\ device_size_ = 0
    /\ sector_size_ = DEFAULT_SECTOR_SIZE
    /\ detected_fs_ = "UNKNOWN"
    /\ is_open_ = FALSE
    /\ handle = "new"
    /\ ret = [Ret("DeviceIO") EXCEPT !.pre_open = FALSE, !.pre_path = ""]
    /\ \E order \in HostOrders : UpperInitOn(order)

NextHost ==
    \/ OpenOnHost("/dev/a", AllFull)
    \/ Close(TRUE)
    \/ \E record_data \in Records : IsFileDeletedCall(record_data)

SpecHost == InitHost /\ [][NextHost]_vars

\* ------------------------------------------------------------------ claims
Reads == {"ReadBlock", "ReadBlockVector"}

\* what the platform delivered of a read of size bytes that lies within a
\* device and was not answered with an error
Delivered(r, size) ==
    CASE r.io = "full" -> size
      [] r.io = "half" -> size \div 2
      [] OTHER -> 0

\* C1: on an open device of size S, a ReadBlock(o, l, buffer) whose sum o + l,
\* taken as a mathematical sum and not modulo 2^64, exceeds S fails with an
\* error and transfers no bytes.
C1_ReadBeyondSizeFails ==
    (ret.op = "ReadBlock" /\ ret.pre_open /\ ret.offset + ret.size > device_size_)
        => (~ret.ok /\ ret.n = 0)

\* C2: no read succeeds on a handle that is not open: before the first Open,
\* after every Close and after an Open that failed, ReadBlock and
\* ReadBlockVector fail and transfer nothing.
C2_NoReadUnlessOpen ==
    (ret.op \in Reads /\ handle # "opened") => (~ret.ok /\ ret.n = 0)

\* a read was refused on a handle whose last Open failed after an earlier
\* Open had succeeded
C2_Witness ==
    /\ ret.op = "ReadBlockVector"
    /\ handle = "open_failed"
    /\ current_device_path_ # ""
    /\ ret.why = "Device not open"

C5_CloseIdempotent ==
    [][(ret'.op = "Close" /\ (~is_open_ \/ ret.op = "Close"))
          => (ret'.ok /\ UNCHANGED devio /\ UNCHANGED files)]_vars

\* Close succeeded on a handle that had been opened and closed before
C5_Witness ==
    /\ ret.op = "Close"
    /\ ~ret.pre_open
    /\ ret.ok
    /\ ret.pre_path # ""
    /\ ~is_open_

\* -------------------------------------------------------- detection claims
\* the calls that run a detection pass and hand its result to the caller
Detections == {"Open", "DetectFilesystem", "AdapterDetectFilesystem"}
DetectionRan == ret.op \in Detections /\ ret.ok /\ is_open_

\* the order the probes are specified to be tried in
ProbeOrder == <<"NTFS", "EXT4", "APFS", "FAT32", "HFS_PLUS">>

\* what one probe says of the device, given the platform's answer to its read
ProbeMatches(p, d, r) ==
    CASE p = "NTFS" -> DetectNTFS(d, r)
      [] p = "EXT4" -> DetectEXT4(d, r)
      [] p = "APFS" -> DetectAPFS(d, r)
      [] p = "FAT32" -> DetectFAT32(d, r)
      [] OTHER -> DetectHFSPlus(d, r)

\* the first type of ProbeOrder that is in hits, UNKNOWN when there is none
FirstOf(hits) ==
    LET at == {i \in 1 .. Len(ProbeOrder) : ProbeOrder[i] \in hits}
    IN  IF at = {} THEN "UNKNOWN"
        ELSE ProbeOrder[CHOOSE i \in at : \A j \in at : i <= j]

\* the signatures as they lie on a device, byte by byte
SigNTFS(img) ==
    /\ img.size >= NTFS_SIG_OFFSET + NTFS_SIG_LEN
    /\ \A i \in 0 .. 7 : ByteAt(img, 3 + i) = NTFS_SIG[i + 1]
SigEXT(img) ==
    img.size >= 1082 /\ ByteAt(img, 1080) = 83 /\ ByteAt(img, 1081) = 239
SigNXSB(img) ==
    /\ img.size >= 4
    /\ <<ByteAt(img, 0), ByteAt(img, 1), ByteAt(img, 2), ByteAt(img, 3)>>
          = <<78, 88, 83, 66>>
SigAPSB(img) ==
    /\ img.size >= 4
    /\ <<ByteAt(img, 0), ByteAt(img, 1), ByteAt(img, 2), ByteAt(img, 3)>>
          = <<65, 80, 83, 66>>
SigAPFS(img) == SigNXSB(img) \/ SigAPSB(img)
SigFAT(img) ==
    img.size >= 512 /\ ByteAt(img, 510) = 85 /\ ByteAt(img, 511) = 170
\* "H+" or "HX"
SigHFS(img) ==
    img.size >= 1026 /\ ByteAt(img, 1024) = 72 /\ ByteAt(img, 1025) \in {43, 88}
JumpByte(img) == img.size >= 1 /\ ByteAt(img, 0) \in {235, 233}

Sig(p, img) ==
    CASE p = "NTFS" -> SigNTFS(img)
      [] p = "EXT4" -> SigEXT(img)
      [] p = "APFS" -> SigAPFS(img)
      [] p = "FAT32" -> SigFAT(img)
      [] OTHER -> SigHFS(img)

\* one past the last byte each probe reads
ProbeEnd(p) ==
    CASE p = "NTFS" -> 512
      [] p = "EXT4" -> 1280
      [] p = "APFS" -> 64
      [] p = "FAT32" -> 512
      [] OTHER -> 1536

\* the device is large enough for every probe's read
CoversProbes(img) == \A p \in Probes : img.size >= ProbeEnd(p)

\* C6: DetectFilesystem returns the type of the first probe that matches in
\* the order NTFS, EXT, APFS, FAT, HFS, and UNKNOWN exactly when no probe
\* matches; an image with the NTFS signature at offset 3, the EXT magic at
\* offset 1080 and the FAT signature at offset 510 is detected as NTFS.
C6_FirstMatchWins ==
    DetectionRan =>
        /\ ret.fs = FirstOf({p \in Probes : ProbeMatches(p, Dev, ret.io[p])})
        /\ (ret.fs = "UNKNOWN") <=> (\A p \in Probes : ~ProbeMatches(p, Dev, ret.io[p]))
        /\ (/\ ret.io = AllFull
            /\ CoversProbes(Dev.img)
            /\ SigNTFS(Dev.img)
            /\ SigEXT(Dev.img)
            /\ SigFAT(Dev.img)) => ret.fs = "NTFS"

\* an image with the NTFS, EXT and FAT signatures at once was detected
C6_Witness ==
    /\ ret.op = "DetectFilesystem"
    /\ is_open_
    /\ SigNTFS(Dev.img) /\ SigEXT(Dev.img) /\ SigFAT(Dev.img) /\ JumpByte(Dev.img)
    /\ CoversProbes(Dev.img)
    /\ ret.fs = "NTFS"

\* the read of probe p fails: the device is not open, it ends before the
\* probe's byte range does, or the platform reports an error
ReadFails(p, d, r) ==
    ~d.is_open \/ ProbeEnd(p) > d.device_size \/ r.io = "error"

\* C7: detection never aborts: a probe whose read fails counts as no match
\* for that probe only, the other probes are still tried, the result is
\* UNKNOWN when none matches, and an Open of a path that can be opened never
\* fails because of detection.
C7_DetectionNeverAborts ==
    /\ ret.op \in Detections /\ (ret.op = "Open" => ret.ok) =>
          LET tried == {p \in Probes : ~ReadFails(p, Dev, ret.io[p])}
          IN  /\ \A p \in Probes \ tried : ret.fs # p
              /\ ret.fs = FirstOf({p \in tried : ProbeMatches(p, Dev, ret.io[p])})
              /\ tried = {} => ret.fs = "UNKNOWN"
    /\ (ret.op = "Open" /\ FileOf(ret.path).exists) => (ret.ok /\ is_open_)

\* Open succeeded on a device that ends before the boot sector does: the
\* NTFS and ext reads failed and the APFS probe, tried after them, matched
C7_Witness ==
    /\ ret.op = "Open"
    /\ ret.ok
    /\ device_size_ < BOOT_SECTOR_SIZE
    /\ ReadFails("NTFS", Dev, ret.io["NTFS"])
    /\ ReadFails("EXT4", Dev, ret.io["EXT4"])
    /\ ret.fs = "APFS"

\* a healthy image of format p: large enough for every probe, carrying the
\* signature of p (for FAT after the jump instruction every FAT boot sector
\* starts with) and the signature of no other format
ValidImage(img, p) ==
    /\ img.exists
    /\ ~img.worn
    /\ CoversProbes(img)
    /\ Sig(p, img)
    /\ p = "FAT32" => JumpByte(img)
    /\ \A q \in Probes \ {p} : ~Sig(q, img)

\* C8: for every valid image of a supported format DetectFilesystem returns
\* that format and never a different one.
C8_ValidImageDetected ==
    DetectionRan => \A p \in Probes : ValidImage(Dev.img, p) => ret.fs = p

\* C9 as claimed: the APFS container probe is checked before the EXT and NTFS
\* probes: an image with the APFS container magic at offset 0 that also
\* carries the EXT magic at offset 1080 is detected as APFS.
C9_ApfsBeforeExt ==
    (/\ DetectionRan
     /\ ret.io = AllFull
     /\ CoversProbes(Dev.img)
     /\ SigNXSB(Dev.img)
     /\ SigEXT(Dev.img)) => ret.fs = "APFS"

\* C9 amended: the APFS container probe is checked after the NTFS and EXT
\* probes: when the reads deliver in full, an image of at least 1280 bytes with the APFS container magic at
\* offset 0 that also carries the EXT magic at offset 1080 is detected as
\* EXT4; an image of at least 64 bytes with the container magic is detected
\* as APFS when the EXT probe does not match.
C9_ExtBeforeApfs ==
    (DetectionRan /\ ret.io = AllFull /\ SigNXSB(Dev.img)) =>
        IF SigEXT(Dev.img) /\ Dev.img.size >= ProbeEnd("EXT4")
        THEN ret.fs = "EXT4"
        ELSE Dev.img.size >= ProbeEnd("APFS") => ret.fs = "APFS"

\* an image with the APFS container magic and the EXT magic was detected as EXT4
C9_Witness ==
    /\ ret.op = "DetectFilesystem"
    /\ is_open_
    /\ SigNXSB(Dev.img)
    /\ SigEXT(Dev.img)
    /\ ret.fs = "EXT4"

\* none of the NTFS, EXT and APFS probes matches the device
NoEarlierMatch(d) ==
    /\ ~ProbeMatches("NTFS", d, Healthy)
    /\ ~ProbeMatches("EXT4", d, Healthy)
    /\ ~ProbeMatches("APFS", d, Healthy)

\* C10 as claimed: an image that has the FAT signature at offset 510 and
\* matches none of the NTFS, EXT and APFS probes is detected as FAT, whatever
\* its other bytes are, byte 0 included.
C10_FatBySignatureAlone ==
    (/\ DetectionRan
     /\ ret.io = AllFull
     /\ SigFAT(Dev.img)
     /\ NoEarlierMatch(Dev)) => ret.fs = "FAT32"

\* C10 amended: when the reads deliver in full, an image that has the FAT
\* signature at offset 510 and matches none of the NTFS, EXT and APFS probes
\* is detected as FAT exactly when its byte 0 is a jump opcode, 0xEB or 0xE9.
C10_FatNeedsJump ==
    (/\ DetectionRan
     /\ ret.io = AllFull
     /\ SigFAT(Dev.img)
     /\ NoEarlierMatch(Dev)) => (ret.fs = "FAT32" <=> JumpByte(Dev.img))

\* an image with the FAT signature and the near-jump opcode 0xE9 was
\* detected as FAT
C10_Witness ==
    /\ ret.op = "DetectFilesystem"
    /\ is_open_
    /\ SigFAT(Dev.img)
    /\ ByteAt(Dev.img, 0) = 233
    /\ ret.fs = "FAT32"

\* ------------------------------------------------------------ parse claims
\* a call of ParseDevice has ended: it returned, or the process trapped
Ended == pass.pc \in {"idle", "crashed"} /\ pass.outcome # "none"
\* a call of ParseDevice has returned
Returned == pass.pc = "idle" /\ pass.outcome # "none"
\* a call of ParseDevice has returned true
Succeeded == pass.pc = "idle" /\ pass.ok
\* total_found and total_deleted of a sequence of records
CountsOf(es) == <<Len(es), CountDeleted(es)>>
\* the pass before this one ended on another device
AfterOtherDevice ==
    /\ pass.prev.outcome # "none"
    /\ pass.prev.path # ""
    /\ pass.prev.path # pass.path

\* C11: the image with the EXT magic 0xEF53 at byte offset 1080 and zero
\* bytes everywhere else is detected as EXT, and parsing it into an empty
\* vector succeeds with total_found = 0 and no records.
C11_ExtOnlyImageParsesEmpty ==
    (/\ Ended
     /\ FileOf(pass.path) = ExtOnlyImage
     /\ pass.before = <<>>)
        => (/\ pass.fs = "EXT4"
            /\ pass.ok
            /\ pass.emitted = <<>>
            /\ pass.stats = <<0, 0>>)

\* C12: after every successful parse pass the statistics of the parser and
\* of the adapter are the counts of the records the pass emitted:
\* total_found their number, total_deleted the number with is_deleted.
C12_StatsEqualRecords ==
    Succeeded
        => (/\ ParserStats(ParserOf(pass.fs)) = CountsOf(pass.emitted)
            /\ GetRecoveryStats = CountsOf(pass.emitted))

\* C13: after a successful ParseDevice on a device that follows the parse
\* of another device, the records and the adapter's statistics are those of
\* this pass alone, also when the caller passed the same vector.
C13_FreshCatalogPerCycle ==
    (Succeeded /\ AfterOtherDevice /\ pass.prev.ok)
        => (/\ entries = pass.emitted
            /\ GetRecoveryStats = CountsOf(pass.emitted))

\* C14: the statistics readable after the scan of a device B, successful or
\* not, are never the counts that the scan of the device A before it left
\* (statistics of zero are those of no scan).
C14_NoCountLeak ==
    (Returned /\ AfterOtherDevice /\ pass.prev.ok)
        => (pass.stats_path # pass.prev.path \/ GetRecoveryStats = <<0, 0>>)

\* C15: parsing the same device twice, each time into an empty vector,
\* gives the same return value, the same statistics and the same records.
C15_ParseIdempotent ==
    (/\ Returned
     /\ pass.prev.outcome # "none"
     /\ pass.prev.path = pass.path
     /\ pass.path # ""
     /\ pass.prev.fresh
     /\ pass.before = <<>>)
        => (/\ pass.outcome = pass.prev.outcome
            /\ pass.ok = pass.prev.ok
            /\ pass.emitted = pass.prev.emitted
            /\ pass.stats = pass.prev.stats
            /\ pass.pstats = pass.prev.pstats)

\* the counters of the three parsers
Counters ==
    <<ParserStats(ntfs_parser_), ParserStats(apfs_parser_),
      ParserStats(ext4_parser_)>>

\* C16: within a pass, after the reset that starts it, total_found and
\* total_deleted of the parser never decrease from one step to the next;
\* between the end of a pass and the next call they do not change.
C16_CountsMonotoneThenFrozen ==
    [][/\ (/\ pass.pc \in {"reset", "emit", "return"}
           /\ ~(pass.pc = "reset" /\ pass.done = 0))
              => (/\ ParserOf(pass.fs)'.total_recoverable_files_
                        >= ParserOf(pass.fs).total_recoverable_files_
                  /\ ParserOf(pass.fs)'.total_deleted_files_
                        >= ParserOf(pass.fs).total_deleted_files_)
       /\ (pass.pc = "idle" /\ pass'.n = pass.n)
              => UNCHANGED <<Counters, last_total_files_,
                             last_deleted_files_>>]_vars

\* the record slots of a table that are structurally invalid
RECURSIVE CountBad(_)
CountBad(table) ==
    IF table = <<>> THEN 0
    ELSE (IF Head(table) = "bad" THEN 1 ELSE 0) + CountBad(Tail(table))

\* C17: when exactly one record of the metadata table of n records is
\* structurally invalid, the pass succeeds and emits the n - 1 valid ones.
C17_BadRecordSkipped ==
    (/\ Ended
     /\ pass.outcome # "not_open"
     /\ CountBad(TableOf(FileOf(pass.path))) = 1)
        => (/\ pass.ok
            /\ Len(pass.emitted) = Len(TableOf(FileOf(pass.path))) - 1)

\* C18: a pass during which StopScan succeeded after k of its n record
\* slots, k < n, ends with at most k records and with the outcome
\* "cancelled"; it does not end in a trap nor as a failure.
C18_CancelledPassStops ==
    (/\ Ended
     /\ pass.stopped_at >= 0
     /\ pass.stopped_at < pass.done + pass.todo)
        => (/\ Len(pass.emitted) <= pass.stopped_at
            /\ pass.outcome = "cancelled")

\* ---------------------------------------------------------- session claims
\* C19: while the device stays open, no ReadBlock, ReadBlockVector or
\* DetectFilesystem call changes what GetDeviceSize, GetSectorSize and
\* GetDeviceInfo().filesystem_type return.
C19_SessionValuesFixed ==
    [][(is_open_ /\ ret'.op \notin {"Open", "Close"})
          => UNCHANGED <<GetDeviceSize, GetSectorSize,
                         GetDeviceInfo.filesystem_type>>]_vars

\* a DetectFilesystem call in an open session found another type than the
\* one the session reports
C19_Witness ==
    /\ is_open_
    /\ ret.op = "DetectFilesystem"
    /\ ret.pre_open
    /\ ret.fs # GetDeviceInfo.filesystem_type

\* C20: GetDeviceSize returns 0 whenever the device is not open.
C20_SizeZeroUnlessOpen == ~is_open_ => GetDeviceSize = 0

\* C21: two DeviceIO objects never hold the same device path open at the
\* same time
C21_ExclusiveHandle ==
    ~(/\ is_open_
      /\ peer.is_open_
      /\ peer.current_device_path_ = current_device_path_)

\* a step that is a call of Parse or ParseDevice returning false
FailedCall ==
    /\ pass.pc = "idle"
    /\ pass'.pc = "idle"
    /\ pass'.n = pass.n + 1
    /\ ~pass'.ok

\* C22: a Parse that returns false leaves the result vector and the
\* statistics of every parser as they were, and a parser that has not parsed
\* successfully reports (0, 0) whenever no call is in progress
C22_FailedParseChangesNothing ==
    /\ [][FailedCall =>
             /\ entries' = entries
             /\ \A fs \in ParsedTypes :
                   ParserStats(ParserOf(fs))' = ParserStats(ParserOf(fs))]_vars
    /\ [](\A fs \in ParsedTypes :
             (pass.pc = "idle" /\ ~ParserOf(fs).is_initialized_)
                 => ParserStats(ParserOf(fs)) = <<0, 0>>)

\* a parser that parsed one device rejects the next one, with the entry of
\* the first still in the vector
C22_Witness ==
    /\ pass.direct
    /\ pass.pc = "idle"
    /\ pass.outcome = "root_invalid"
    /\ pass.prev.ok
    /\ pass.before # <<>>
    /\ entries = pass.before
    /\ pass.pstats = <<1, 0>>

\* C23: a Parse that has returned true has pushed at least one entry
C23_TrueMeansAppended ==
    (pass.direct /\ pass.pc = "idle" /\ pass.ok) => pass.emitted # <<>>

\* C24: the statistics of the adapter and of each parser are a pair
\* (total, deleted) with 0 <= deleted <= total, in every state
C24_DeletedWithinTotal ==
    \A st \in {GetRecoveryStats}
                \cup {ParserStats(ParserOf(fs)) : fs \in ParsedTypes} :
        0 <= st[2] /\ st[2] <= st[1]

\* the adapter has counted a deleted entry among those of a successful pass
C24_Witness ==
    /\ pass.pc = "idle"
    /\ pass.ok
    /\ pass.emitted # <<>>
    /\ GetRecoveryStats[2] >= 1
    /\ GetRecoveryStats[1] > GetRecoveryStats[2]

\* the stage at which a call of ParseDevice failed
StageOf(outcome) ==
    CASE outcome = "not_open" -> "open"
      [] outcome \in {"unknown_fs", "no_parser"} -> "detect"
      [] outcome = "root_invalid" -> "parse-root"
      [] OTHER -> "parse-records"

\* the stage a message of ParseDevice lets its reader name
StageNamed(msg) ==
    CASE msg = "Device not open" -> "open"
      [] msg \in {"Unknown filesystem type", "Failed to initialize parser"}
             -> "detect"
      [] OTHER -> "none"

\* C25: a call of ParseDevice that has returned false has reported the
\* stage at which it failed
C25_FailureNamesStage ==
    (pass.pc = "idle" /\ ~pass.direct /\ pass.n > 0 /\ ~pass.ok)
        => StageNamed(pass.cerr) = StageOf(pass.outcome)

\* the block groups a device of the given size can hold at most: a group
\* has at least one block
GroupsOnDevice(size) == size \div EXT4_BLOCK_SIZE

\* C26: the block groups a pass iterates over are no more than the device,
\* by its size, can hold
C26_SlotsClampedToDevice ==
    (~pass.direct /\ pass.fs = "EXT4" /\ pass.pc \in {"reset", "emit", "return"})
        => pass.done + pass.todo <= GroupsOnDevice(device_size_)

\* C27: detection and the deleted flag come out as a little-endian decoding
\* of the bytes gives them, on a host of either byte order
C27_HostIndependent ==
    /\ (is_open_ /\ ret.op = "Open")
          => detected_fs_ = DetectFilesystemOn("little", Dev, ret.io)
    /\ verdict.deleted = IsFileDeleted("little", verdict.record_data)

\* the names of the types other than UNKNOWN
KnownNames == {FilesystemTypeToString(t) : t \in FilesystemTypes \ {"UNKNOWN"}}

\* C28: the name FilesystemTypeToString gives for a type is converted back
\* to that type, and a string that is not the name of a known type is
\* converted to UNKNOWN
C28_TypeNameRoundTrip ==
    /\ (conv.fs_type # "-" /\ conv.name_in = conv.fs_name)
          => conv.type_out = conv.fs_type
    /\ (conv.name_in # "-" /\ conv.name_in \notin KnownNames)
          => conv.type_out = "UNKNOWN"

\* EXT4 has gone to its name, which is not spelled as the enumerator, and
\* back
C28_Witness ==
    /\ conv.fs_type = "EXT4"
    /\ conv.fs_name = "ext4"
    /\ conv.name_in = conv.fs_name
    /\ conv.type_out = "EXT4"

\* C29: after SetProgress(v) the progress bar shows v brought into 0..100
C29_SetProgressClamps ==
    ui_call.op = "SetProgress"
        => progress_bar_ = (IF ui_call.arg < 0 THEN 0
                            ELSE IF ui_call.arg > 100 THEN 100
                            ELSE ui_call.arg)

\* C30: after SetUIEnabled(b) the wizard widget reports isEnabled() = b
C30_WizardEnabledFollows ==
    ui_call.op = "SetUIEnabled" => WizardIsEnabled = ui_call.arg

\* a step that is a call of StartScan
StartScanStep ==
    /\ scan_call'.op = "StartScan"
    /\ engine' # engine

C32_StartStopAlternate ==
    /\ scan_call.op = "StopScan"
          => /\ scan_call.ok = scan_call.pre
             /\ scan_call.ok => ~is_scanning_
    /\ (scan_call.op = "StartScan" /\ scan_call.ok)
          => scan_call.before \in {"none", "StopScan"}
    /\ (scan_call.op = "StopScan" /\ scan_call.ok)
          => scan_call.before = "StartScan"

\* a second scan has been stopped, after a StopScan that found none
C32_Witness ==
    /\ scan_call.op = "StopScan"
    /\ scan_call.ok
    /\ scan_call.before = "StartScan"
    /\ ~is_scanning_
    /\ current_device_ = "/dev/sda1"

\* a step that is the call of DeviceIOAdapter::ParseDevice
ParseDeviceCall ==
    /\ pass.pc = "idle"
    /\ pass'.n = pass.n + 1
    /\ ~pass'.direct

C34_FailedOpenKeepsDevice ==
    [][(ret'.op = "Open" /\ ~ret'.ok /\ is_open_)
          => /\ is_open_'
             /\ UNCHANGED <<device_fd_, current_device_path_, device_size_,
                            detected_fs_>>]_vars

\* C35: whether ParseDevice succeeds depends on the bytes of the opened
\* device only: two passes that returned, on devices with identical contents
\* opened under whatever paths, both succeeded or both failed
C35_PathSpellingIrrelevant ==
    (/\ Returned
     /\ ~pass.direct
     /\ pass.prev.outcome \notin {"none", "crash"}
     /\ pass.path \in ParsePaths
     /\ pass.prev.path \in ParsePaths
     /\ FileOf(pass.path) = FileOf(pass.prev.path))
        => pass.ok = pass.prev.ok

\* C36: ParseGroupDescriptors never divides by zero: blocks_per_group has
\* been assigned a non-zero value by ReadSuperblock before the group count
\* is computed, so no pass over an EXT4 device ends in the trap of the
\* division
C36_NoDivisionByZero ==
    pass.fs = "EXT4" => (pass.pc # "crashed" /\ pass.outcome # "crash")

\* C37: at most one of the three parsers accepts a device path: CanHandle
\* of two different parsers is never true for the same path
C37_OneParserPerPath ==
    \A f, g \in {"NTFS", "APFS", "EXT4"} :
        (/\ f # g
         /\ can_handle[f].device_path = can_handle[g].device_path
         /\ can_handle[f].ok)
            => ~can_handle[g].ok

\* the probes tried in the order NTFS, EXT, FAT, APFS, HFS
FatBeforeApfs(d, io) ==
    IF DetectNTFS(d, io["NTFS"]) THEN "NTFS"
    ELSE IF DetectEXT4(d, io["EXT4"]) THEN "EXT4"
    ELSE IF DetectFAT32(d, io["FAT32"]) THEN "FAT32"
    ELSE IF DetectAPFS(d, io["APFS"]) THEN "APFS"
    ELSE IF DetectHFSPlus(d, io["HFS_PLUS"]) THEN "HFS_PLUS"
    ELSE "UNKNOWN"

\* C38: no device matches the APFS probe together with the NTFS probe or
\* together with the FAT32 probe, so the result of a detection pass is the
\* same with the APFS probe tried after the FAT32 probe and, where the EXT
\* probe does not match, with the APFS probe tried before the NTFS probe
C38_ApfsExcludesNtfsAndFat ==
    DetectionRan =>
        /\ ~(DetectAPFS(Dev, ret.io["APFS"]) /\ DetectNTFS(Dev, ret.io["NTFS"]))
        /\ ~(DetectAPFS(Dev, ret.io["APFS"])
               /\ DetectFAT32(Dev, ret.io["FAT32"]))
        /\ ret.fs = FatBeforeApfs(Dev, ret.io)
        /\ ~DetectEXT4(Dev, ret.io["EXT4"])
              => ret.fs = DetectFilesystem_ApfsFirst(Dev, ret.io)

\* a device with the container magic in bytes 0..3, the tail of the NTFS
\* OEM id behind it and the boot signature at offset 510 was detected as
\* APFS
C38_Witness ==
    /\ DetectionRan
    /\ Dev.img.head = HeadNXSBTail
    /\ Dev.img.boot = <<85, 170>>
    /\ Dev.img.ext = <<0, 0>>
    /\ CoversProbes(Dev.img)
    /\ ret.fs = "APFS"

\* the entries the table shows in its selected rows, from the top
ShownSelected(v) ==
    LET rows == Ascending(v.selected)
    IN  [k \in 1 .. Len(rows) |-> v.current_results_[rows[k]]]

\* C39: GetSelectedFiles returns exactly the entries shown in the selected
\* rows of the table, also while a filter makes the rows of the table
\* differ from the positions of the entries in the populated results
C39_SelectedFilesAreShown ==
    view.op = "GetSelectedFiles" => view.got = ShownSelected(view)

====
